---- MODULE Spec2Model ----
(***************************************************************************)
(* A model of the movie bot of src/main.py: the watchlist table, the       *)
(* presentation functions, and the update handlers of the dispatcher.      *)
(*                                                                         *)
(* A Python str is a sequence of one-character strings, one element per    *)
(* code point; a code point outside ASCII is written "U+XXXX".  A dict is  *)
(* a function whose domain is its set of keys.  None, "" , [] and {} are   *)
(* all falsy in Python and the program reads every optional field through  *)
(* `x or default` or `if x`, so an absent or null field is <<>>.           *)
(***************************************************************************)
EXTENDS Integers, Sequences, FiniteSets, TLC

VARIABLES
    env,        \* which of BOT_TOKEN, TMDB_API_KEY, WEBHOOK_BASE are set
    phase,      \* "boot", then "serving" or "aborted"
    store,      \* the watchlist table of data.db: a set of rows
    clock,      \* the last instant datetime.utcnow() returned
    dbcall,     \* the last call of a db_* function: its name, arguments, outcome
    dbrows,     \* the rows the last db_* call returned (none but for db_list_watch)
    user_data,  \* context.user_data of every user: the key "last_movie"
    task,       \* the update being handled: handler, position, locals
    out,        \* the replies the handler has sent for this update
    reqs,       \* the TMDB requests the handler has issued for this update
    nevents,    \* how many updates have been taken from the queue
    fcall,      \* a call of a presentation function: its name and arguments
    fret,       \* what that call returned
    parked,     \* a handler waiting at an await while another one runs
    history     \* the last watchlist callback each user sent for each movie,
                \* and whether a db_* call has raised so far

vars ==
    <<env, phase, store, clock, dbcall, dbrows, user_data, task, out, reqs, nevents,
      fcall, fret, parked, history>>

-----------------------------------------------------------------------------
(* Python's str and int operations, as far as the program uses them.       *)

Min(a, b) == IF a < b THEN a ELSE b

\* s[:n]
Take(s, n) == SubSeq(s, 1, Min(n, Len(s)))

\* s[n:]
Drop(s, n) == SubSeq(s, n + 1, Len(s))

\* s.startswith(p)
StartsWith(s, p) == Len(p) <= Len(s) /\ SubSeq(s, 1, Len(p)) = p

\* x or d
Or(x, d) == IF x = <<>> THEN d ELSE x

\* d.get(k), an absent key read as the falsy <<>>
Get(d, k) == IF k \in DOMAIN d THEN d[k] ELSE <<>>

\* s.split(sep) for a one-character sep
RECURSIVE Split(_, _)
Split(s, sep) ==
    LET hits == {i \in 1..Len(s) : s[i] = sep}
    IN  IF hits = {} THEN <<s>>
        ELSE LET i == CHOOSE k \in hits : \A j \in hits : k <= j
             IN  <<SubSeq(s, 1, i - 1)>> \o Split(Drop(s, i), sep)

\* sep.join(parts)
RECURSIVE Join(_, _)
Join(parts, sep) ==
    IF parts = <<>> THEN <<>>
    ELSE IF Len(parts) = 1 THEN parts[1]
    ELSE parts[1] \o sep \o Join(Tail(parts), sep)

Whitespace == {" ", "\n", "\t"}

\* s.strip()
RECURSIVE Strip(_)
Strip(s) ==
    IF s = <<>> THEN s
    ELSE IF s[1] \in Whitespace THEN Strip(Tail(s))
    ELSE IF s[Len(s)] \in Whitespace THEN Strip(SubSeq(s, 1, Len(s) - 1))
    ELSE s

DigitChars == <<"0", "1", "2", "3", "4", "5", "6", "7", "8", "9">>

IsDigit(c) == \E d \in 1..10 : DigitChars[d] = c

DigitVal(c) == (CHOOSE d \in 1..10 : DigitChars[d] = c) - 1

\* str(n) and f"{n}" of an int
RECURSIVE NatToStr(_)
NatToStr(n) ==
    IF n < 10 THEN <<DigitChars[n + 1]>>
    ELSE NatToStr(n \div 10) \o <<DigitChars[(n % 10) + 1]>>

IntToStr(n) == IF n < 0 THEN <<"-">> \o NatToStr(0 - n) ELSE NatToStr(n)

\* The digits of an int literal after the sign: digits, with single
\* underscores between digits.
IsIntBody(b) ==
    /\ b # <<>>
    /\ \A i \in 1..Len(b) :
          \/ IsDigit(b[i])
          \/ /\ b[i] = "_"
             /\ 1 < i /\ i < Len(b)
             /\ IsDigit(b[i - 1]) /\ IsDigit(b[i + 1])

RECURSIVE DigitsVal(_, _)
DigitsVal(b, acc) ==
    IF b = <<>> THEN acc
    ELSE IF b[1] = "_" THEN DigitsVal(Tail(b), acc)
    ELSE DigitsVal(Tail(b), 10 * acc + DigitVal(b[1]))

\* int(s): [ok |-> TRUE, val |-> n], or ok = FALSE where Python raises
\* ValueError.  Surrounding whitespace and one sign are accepted.
PyInt(s) ==
    LET t == Strip(s)
        signed == t # <<>> /\ t[1] \in {"+", "-"}
        b == IF signed THEN Tail(t) ELSE t
    IN  IF ~IsIntBody(b) THEN [ok |-> FALSE, val |-> 0]
        ELSE [ok |-> TRUE,
              val |-> IF signed /\ t[1] = "-" THEN 0 - DigitsVal(b, 0)
                      ELSE DigitsVal(b, 0)]

\* The characters quote_plus leaves as they are.
UrlSafe ==
    {"a", "b", "c", "d", "e", "f", "g", "h", "i", "j", "k", "l", "m",
     "n", "o", "p", "q", "r", "s", "t", "u", "v", "w", "x", "y", "z",
     "A", "B", "C", "D", "E", "F", "G", "H", "I", "J", "K", "L", "M",
     "N", "O", "P", "Q", "R", "S", "T", "U", "V", "W", "X", "Y", "Z",
     "0", "1", "2", "3", "4", "5", "6", "7", "8", "9", "_", ".", "-", "~"}

\* The percent escapes of the other ASCII characters of the modelled titles.
UrlEscape ==
    (":" :> <<"%", "3", "A">>) @@ ("(" :> <<"%", "2", "8">>)
    @@ (")" :> <<"%", "2", "9">>) @@ ("&" :> <<"%", "2", "6">>)
    @@ ("'" :> <<"%", "2", "7">>) @@ ("*" :> <<"%", "2", "A">>)

\* urllib.parse.quote_plus(s)
RECURSIVE quote_plus(_)
quote_plus(s) ==
    IF s = <<>> THEN <<>>
    ELSE (IF s[1] \in UrlSafe THEN <<s[1]>>
          ELSE IF s[1] = " " THEN <<"+">>
          ELSE UrlEscape[s[1]]) \o quote_plus(Tail(s))

-----------------------------------------------------------------------------
(* The string literals of the program.                                     *)

\* main.py:115  'Unknown'
TxtUnknown ==
    <<"U", "n", "k", "n", "o", "w", "n">>

\* main.py:356  'Movie'
TxtMovie ==
    <<"M", "o", "v", "i", "e">>

\* main.py:118  'm:'
TagM ==
    <<"m", ":">>

\* main.py:143  'w:add:'
TagAdd ==
    <<"w", ":", "a", "d", "d", ":">>

\* main.py:144  'w:del:'
TagDel ==
    <<"w", ":", "d", "e", "l", ":">>

\* main.py:149  'menu'
DataMenu ==
    <<"m", "e", "n", "u">>

\* main.py:119  'cancel'
DataCancel ==
    <<"c", "a", "n", "c", "e", "l">>

\* main.py:119  '\u274c Bekor qilish'
LblCancel ==
    <<"U+274C", " ", "B", "e", "k", "o", "r", " ", "q", "i", "l", "i", "s", "h">>

\* main.py:149  '\u2b05\ufe0f Menyu'
LblMenu ==
    <<"U+2B05", "U+FE0F", " ", "M", "e", "n", "y", "u">>

\* main.py:134  '\U0001f3ac Ko\u2018rish (JustWatch)'
LblJustWatch ==
    <<"U+1F3AC", " ", "K", "o", "U+2018", "r", "i", "s", "h", " ", "(", "J", "u", "s", "t",
      "W", "a", "t", "c", "h", ")">>

\* main.py:136  '\u25b6\ufe0f YouTube qidirish'
LblYouTube ==
    <<"U+25B6", "U+FE0F", " ", "Y", "o", "u", "T", "u", "b", "e", " ", "q", "i", "d", "i", "r",
      "i", "s", "h">>

\* main.py:143  '\u2b50 Watchlistga qo\u2018shish'
LblAdd ==
    <<"U+2B50", " ", "W", "a", "t", "c", "h", "l", "i", "s", "t", "g", "a", " ", "q", "o",
      "U+2018", "s", "h", "i", "s", "h">>

\* main.py:144  '\U0001f5d1 O\u2018chirish'
LblDel ==
    <<"U+1F5D1", " ", "O", "U+2018", "c", "h", "i", "r", "i", "s", "h">>

\* main.py:105  '\U0001f50e Kino qidirish'
BtnSearch ==
    <<"U+1F50E", " ", "K", "i", "n", "o", " ", "q", "i", "d", "i", "r", "i", "s", "h">>

\* main.py:105  '\U0001f525 Trending'
BtnTrending ==
    <<"U+1F525", " ", "T", "r", "e", "n", "d", "i", "n", "g">>

\* main.py:106  '\u2b50 Watchlist'
BtnWatchlist ==
    <<"U+2B50", " ", "W", "a", "t", "c", "h", "l", "i", "s", "t">>

\* main.py:106  '\u2139\ufe0f Yordam'
BtnHelp ==
    <<"U+2139", "U+FE0F", " ", "Y", "o", "r", "d", "a", "m">>

\* main.py:125  'https://www.youtube.com/results?search_query='
YtBase ==
    <<"h", "t", "t", "p", "s", ":", "/", "/", "w", "w", "w", ".", "y", "o", "u", "t", "u", "b",
      "e", ".", "c", "o", "m", "/", "r", "e", "s", "u", "l", "t", "s", "?", "s", "e", "a", "r",
      "c", "h", "_", "q", "u", "e", "r", "y", "=">>

\* main.py:125  ' rent'
YtRent ==
    <<" ", "r", "e", "n", "t">>

\* main.py:40  'https://image.tmdb.org/t/p/w500'
TMDB_IMG ==
    <<"h", "t", "t", "p", "s", ":", "/", "/", "i", "m", "a", "g", "e", ".", "t", "m", "d", "b",
      ".", "o", "r", "g", "/", "t", "/", "p", "/", "w", "5", "0", "0">>

\* main.py:194  '\u274c Hozircha rasmiy platformalarda topilmadi.'
TxtNotAvailable ==
    <<"U+274C", " ", "H", "o", "z", "i", "r", "c", "h", "a", " ", "r", "a", "s", "m", "i", "y",
      " ", "p", "l", "a", "t", "f", "o", "r", "m", "a", "l", "a", "r", "d", "a", " ", "t", "o",
      "p", "i", "l", "m", "a", "d", "i", ".">>

\* main.py:209  '\U0001f3ac Qayerda ko\u2018rish mumkin ('
TxtWhereHead ==
    <<"U+1F3AC", " ", "Q", "a", "y", "e", "r", "d", "a", " ", "k", "o", "U+2018", "r", "i",
      "s", "h", " ", "m", "u", "m", "k", "i", "n", " ", "(">>

\* main.py:209  '):'
TxtWhereTail ==
    <<")", ":">>

\* main.py:211  '\U0001f4fa Obuna bilan: '
TxtFlatrate ==
    <<"U+1F4FA", " ", "O", "b", "u", "n", "a", " ", "b", "i", "l", "a", "n", ":", " ">>

\* main.py:213  '\U0001f4b0 Ijara: '
TxtRent ==
    <<"U+1F4B0", " ", "I", "j", "a", "r", "a", ":", " ">>

\* main.py:215  '\U0001f6d2 Sotib olish: '
TxtBuy ==
    <<"U+1F6D2", " ", "S", "o", "t", "i", "b", " ", "o", "l", "i", "s", "h", ":", " ">>

\* main.py:211  ', '
TxtCommaSp ==
    <<",", " ">>

\* main.py:219  '\n'
TxtNL ==
    <<"\n">>

\* main.py:391  '\U0001f3ac *'
TxtCardHead ==
    <<"U+1F3AC", " ", "*">>

\* main.py:391  '*'
TxtStar ==
    <<"*">>

\* main.py:392  ' ('
TxtParOpen ==
    <<" ", "(">>

\* main.py:392  ')'
TxtParClose ==
    <<")">>

\* main.py:393  '\n\n'
TxtNLNL ==
    <<"\n", "\n">>

\* main.py:394  '\u2b50 Reyting: *'
TxtRating ==
    <<"U+2B50", " ", "R", "e", "y", "t", "i", "n", "g", ":", " ", "*">>

\* main.py:394  '*\n'
TxtRatingEnd ==
    <<"*", "\n">>

\* main.py:395  '\U0001f3ad Janr: '
TxtGenre ==
    <<"U+1F3AD", " ", "J", "a", "n", "r", ":", " ">>

\* main.py:396  '\U0001f4d6 '
TxtOverview ==
    <<"U+1F4D6", " ">>

\* main.py:382  '\u2014'
TxtDash ==
    <<"U+2014">>

\* main.py:272  '\u2022 '
TxtBullet ==
    <<"U+2022", " ">>

\* main.py:267  '\U0001f525 Bugungi TOP kinolar:'
MsgTrendingHead ==
    <<"U+1F525", " ", "B", "u", "g", "u", "n", "g", "i", " ", "T", "O", "P", " ", "k", "i",
      "n", "o", "l", "a", "r", ":">>

\* main.py:288  '\u2b50 Watchlist:'
MsgWatchlistHead ==
    <<"U+2B50", " ", "W", "a", "t", "c", "h", "l", "i", "s", "t", ":">>

\* main.py:257  '\U0001f525 Trending kinolarni yuklayapman...'
MsgTrendingLoading ==
    <<"U+1F525", " ", "T", "r", "e", "n", "d", "i", "n", "g", " ", "k", "i", "n", "o", "l",
      "a", "r", "n", "i", " ", "y", "u", "k", "l", "a", "y", "a", "p", "m", "a", "n", ".", ".",
      ".">>

\* main.py:264  'Hozircha trending topilmadi.'
MsgTrendingEmpty ==
    <<"H", "o", "z", "i", "r", "c", "h", "a", " ", "t", "r", "e", "n", "d", "i", "n", "g", " ",
      "t", "o", "p", "i", "l", "m", "a", "d", "i", ".">>

\* main.py:285  '\u2b50 Watchlist bo\u2018sh. Kino tanlab \u2b50 bosib saqlang.'
MsgWatchlistEmpty ==
    <<"U+2B50", " ", "W", "a", "t", "c", "h", "l", "i", "s", "t", " ", "b", "o", "U+2018", "s",
      "h", ".", " ", "K", "i", "n", "o", " ", "t", "a", "n", "l", "a", "b", " ", "U+2B50", " ",
      "b", "o", "s", "i", "b", " ", "s", "a", "q", "l", "a", "n", "g", ".">>

\* main.py:305  'Kino nomini yozing (masalan: Inception).'
MsgSearchPrompt ==
    <<"K", "i", "n", "o", " ", "n", "o", "m", "i", "n", "i", " ", "y", "o", "z", "i", "n", "g",
      " ", "(", "m", "a", "s", "a", "l", "a", "n", ":", " ", "I", "n", "c", "e", "p", "t", "i",
      "o", "n", ")", ".">>

\* main.py:319  'TMDB_API_KEY sozlanmagan. Render -> Environment ga TMDB_API_KEY qo\u2018ying.'
MsgNoKeyText ==
    <<"T", "M", "D", "B", "_", "A", "P", "I", "_", "K", "E", "Y", " ", "s", "o", "z", "l", "a",
      "n", "m", "a", "g", "a", "n", ".", " ", "R", "e", "n", "d", "e", "r", " ", "-", ">", " ",
      "E", "n", "v", "i", "r", "o", "n", "m", "e", "n", "t", " ", "g", "a", " ", "T", "M", "D",
      "B", "_", "A", "P", "I", "_", "K", "E", "Y", " ", "q", "o", "U+2018", "y", "i", "n", "g",
      ".">>

\* main.py:324  '\U0001f50e Qidiryapman...'
MsgSearching ==
    <<"U+1F50E", " ", "Q", "i", "d", "i", "r", "y", "a", "p", "m", "a", "n", ".", ".", ".">>

\* main.py:330  'Hech narsa topilmadi. Boshqa nom bilan urinib ko\u2018ring.'
MsgNothingFound ==
    <<"H", "e", "c", "h", " ", "n", "a", "r", "s", "a", " ", "t", "o", "p", "i", "l", "m", "a",
      "d", "i", ".", " ", "B", "o", "s", "h", "q", "a", " ", "n", "o", "m", " ", "b", "i", "l",
      "a", "n", " ", "u", "r", "i", "n", "i", "b", " ", "k", "o", "U+2018", "r", "i", "n", "g",
      ".">>

\* main.py:333  'Topilgan natijalar (birini tanlang):'
MsgResults ==
    <<"T", "o", "p", "i", "l", "g", "a", "n", " ", "n", "a", "t", "i", "j", "a", "l", "a", "r",
      " ", "(", "b", "i", "r", "i", "n", "i", " ", "t", "a", "n", "l", "a", "n", "g", ")", ":">>

\* main.py:342  'Bekor qilindi.'
MsgCancelled ==
    <<"B", "e", "k", "o", "r", " ", "q", "i", "l", "i", "n", "d", "i", ".">>

\* main.py:346  'Menyu:'
MsgMenu ==
    <<"M", "e", "n", "y", "u", ":">>

\* main.py:358  '\u2b50 Watchlistga qo\u2018shildi!'
MsgAdded ==
    <<"U+2B50", " ", "W", "a", "t", "c", "h", "l", "i", "s", "t", "g", "a", " ", "q", "o",
      "U+2018", "s", "h", "i", "l", "d", "i", "!">>

\* main.py:364  '\U0001f5d1 Watchlistdan o\u2018chirildi.'
MsgRemoved ==
    <<"U+1F5D1", " ", "W", "a", "t", "c", "h", "l", "i", "s", "t", "d", "a", "n", " ", "o",
      "U+2018", "c", "h", "i", "r", "i", "l", "d", "i", ".">>

\* main.py:170  '/search/movie'
PathSearch ==
    <<"/", "s", "e", "a", "r", "c", "h", "/", "m", "o", "v", "i", "e">>

\* main.py:177  '/movie/'
PathMovie ==
    <<"/", "m", "o", "v", "i", "e", "/">>

\* main.py:181  '/watch/providers'
PathProviders ==
    <<"/", "w", "a", "t", "c", "h", "/", "p", "r", "o", "v", "i", "d", "e", "r", "s">>

\* main.py:260  '/trending/movie/day'
PathTrending ==
    <<"/", "t", "r", "e", "n", "d", "i", "n", "g", "/", "m", "o", "v", "i", "e", "/", "d", "a",
      "y">>

\* main.py:234  '\U0001f3ac Assalomu alaykum!\n\nKino nomini yozing \u2014 men topib beraman.\nTanlaganingizdan keyin: poster, syujet, reyting va qayerda ko\u2018rish mumkinligini chiqaraman.\n\nPastdagi tugmalardan ham foydalanishingiz mumkin.'
MsgStart ==
    <<"U+1F3AC", " ", "A", "s", "s", "a", "l", "o", "m", "u", " ", "a", "l", "a", "y", "k",
      "u", "m", "!", "\n", "\n", "K", "i", "n", "o", " ", "n", "o", "m", "i", "n", "i", " ",
      "y", "o", "z", "i", "n", "g", " ", "U+2014", " ", "m", "e", "n", " ", "t", "o", "p", "i",
      "b", " ", "b", "e", "r", "a", "m", "a", "n", ".", "\n", "T", "a", "n", "l", "a", "g",
      "a", "n", "i", "n", "g", "i", "z", "d", "a", "n", " ", "k", "e", "y", "i", "n", ":", " ",
      "p", "o", "s", "t", "e", "r", ",", " ", "s", "y", "u", "j", "e", "t", ",", " ", "r", "e",
      "y", "t", "i", "n", "g", " ", "v", "a", " ", "q", "a", "y", "e", "r", "d", "a", " ", "k",
      "o", "U+2018", "r", "i", "s", "h", " ", "m", "u", "m", "k", "i", "n", "l", "i", "g", "i",
      "n", "i", " ", "c", "h", "i", "q", "a", "r", "a", "m", "a", "n", ".", "\n", "\n", "P",
      "a", "s", "t", "d", "a", "g", "i", " ", "t", "u", "g", "m", "a", "l", "a", "r", "d", "a",
      "n", " ", "h", "a", "m", " ", "f", "o", "y", "d", "a", "l", "a", "n", "i", "s", "h", "i",
      "n", "g", "i", "z", " ", "m", "u", "m", "k", "i", "n", ".">>

\* main.py:244  "\u2139\ufe0f Yordam:\n1) Kino nomini yozing (masalan: Interstellar)\n2) Bot top 5 variant beradi \u2014 birini tanlaysiz\n3) 'Qayerda ko\u2018rish mumkin' bo\u2018limida rasmiy platformalar chiqadi\n4) '\U0001f3ac Ko\u2018rish (JustWatch)' tugmasi orqali aynan qaysi platformada borligi ochiladi\n\n\U0001f525 Trending \u2014 mashhur kinolar\n\u2b50 Watchlist \u2014 saqlagan kinolaringiz"
MsgHelp ==
    <<"U+2139", "U+FE0F", " ", "Y", "o", "r", "d", "a", "m", ":", "\n", "1", ")", " ", "K",
      "i", "n", "o", " ", "n", "o", "m", "i", "n", "i", " ", "y", "o", "z", "i", "n", "g", " ",
      "(", "m", "a", "s", "a", "l", "a", "n", ":", " ", "I", "n", "t", "e", "r", "s", "t", "e",
      "l", "l", "a", "r", ")", "\n", "2", ")", " ", "B", "o", "t", " ", "t", "o", "p", " ",
      "5", " ", "v", "a", "r", "i", "a", "n", "t", " ", "b", "e", "r", "a", "d", "i", " ",
      "U+2014", " ", "b", "i", "r", "i", "n", "i", " ", "t", "a", "n", "l", "a", "y", "s", "i",
      "z", "\n", "3", ")", " ", "'", "Q", "a", "y", "e", "r", "d", "a", " ", "k", "o",
      "U+2018", "r", "i", "s", "h", " ", "m", "u", "m", "k", "i", "n", "'", " ", "b", "o",
      "U+2018", "l", "i", "m", "i", "d", "a", " ", "r", "a", "s", "m", "i", "y", " ", "p", "l",
      "a", "t", "f", "o", "r", "m", "a", "l", "a", "r", " ", "c", "h", "i", "q", "a", "d", "i",
      "\n", "4", ")", " ", "'", "U+1F3AC", " ", "K", "o", "U+2018", "r", "i", "s", "h", " ",
      "(", "J", "u", "s", "t", "W", "a", "t", "c", "h", ")", "'", " ", "t", "u", "g", "m", "a",
      "s", "i", " ", "o", "r", "q", "a", "l", "i", " ", "a", "y", "n", "a", "n", " ", "q", "a",
      "y", "s", "i", " ", "p", "l", "a", "t", "f", "o", "r", "m", "a", "d", "a", " ", "b", "o",
      "r", "l", "i", "g", "i", " ", "o", "c", "h", "i", "l", "a", "d", "i", "\n", "\n",
      "U+1F525", " ", "T", "r", "e", "n", "d", "i", "n", "g", " ", "U+2014", " ", "m", "a",
      "s", "h", "h", "u", "r", " ", "k", "i", "n", "o", "l", "a", "r", "\n", "U+2B50", " ",
      "W", "a", "t", "c", "h", "l", "i", "s", "t", " ", "U+2014", " ", "s", "a", "q", "l", "a",
      "g", "a", "n", " ", "k", "i", "n", "o", "l", "a", "r", "i", "n", "g", "i", "z">>

\* main.py:369  'TMDB_API_KEY sozlanmagan.'
MsgNoKeyCb ==
    <<"T", "M", "D", "B", "_", "A", "P", "I", "_", "K", "E", "Y", " ", "s", "o", "z", "l", "a",
      "n", "m", "a", "g", "a", "n", ".">>
-----------------------------------------------------------------------------
(* Configuration (main.py:31-40).                                          *)

\* DEFAULT_REGION: the default of the environment variable, upper-cased
DEFAULT_REGION == <<"U", "Z">>

\* The fallback region of format_providers and get_provider_link
RegionUS == <<"U", "S">>

\* results[:5] of results_inline_kb
ResultsShown == 5

\* label[:60] of the buttons
LabelMax == 60

\* text_out[:1020] of the photo caption
CaptionMax == 1020

\* LIMIT 50 of db_list_watch
ListLimit == 50

\* rows[:10] of show_watchlist and results[:10] of show_trending
ListShown == 10

-----------------------------------------------------------------------------
(* UI: the keyboards.  A button is its text with its callback_data or its  *)
(* url, the one it does not carry being <<>>; a keyboard is a sequence of  *)
(* rows of buttons.                                                        *)

CallbackButton(text, data) == [text |-> text, callback_data |-> data, url |-> <<>>]

UrlButton(text, link) == [text |-> text, callback_data |-> <<>>, url |-> link]

\* The reply keyboard of the main menu: four plain text buttons.
main_menu_kb == << <<BtnSearch, BtnTrending>>, <<BtnWatchlist, BtnHelp>> >>

\* year = (r.get("release_date") or "")[:4]
YearOf(r) == Take(Get(r, "release_date"), 4)

\* title = r.get("title") or "Unknown"
TitleOf(r) == Or(Get(r, "title"), TxtUnknown)

\* label = f"{title} ({year})" if year else title
LabelOf(title, year) ==
    IF year # <<>> THEN title \o TxtParOpen \o year \o TxtParClose ELSE title

\* f"m:{id}", f"w:add:{id}", f"w:del:{id}"
SelectData(id) == TagM \o IntToStr(id)

\* The add button with the colon before the id left out.
AddData_nocolon(id) == <<"w", ":", "a", "d", "d">> \o IntToStr(id)

AddData(id) == TagAdd \o IntToStr(id)

DelData(id) == TagDel \o IntToStr(id)

ResultButton(r) ==
    CallbackButton(Take(LabelOf(TitleOf(r), YearOf(r)), LabelMax), SelectData(r["id"]))

\* The keyboard without the cut to five results.
results_inline_kb_all(results) ==
    [i \in 1..Len(results) |-> <<ResultButton(results[i])>>]
    \o << <<CallbackButton(LblCancel, DataCancel)>> >>

results_inline_kb(results) ==
    LET shown == Take(results, ResultsShown)
    IN  [i \in 1..Len(shown) |-> <<ResultButton(shown[i])>>]
        \o << <<CallbackButton(LblCancel, DataCancel)>> >>

youtube_search_url(title, year) ==
    LET q == IF year # <<>> THEN Strip(title \o <<" ">> \o year) ELSE title
    IN  YtBase \o quote_plus(q \o YtRent)

\* The keyboard with the row of links emitted even when it is empty.
movie_actions_kb_always(movie_id, watch_url, yt_url) ==
    LET links_row == (IF watch_url # <<>> THEN <<UrlButton(LblJustWatch, watch_url)>> ELSE <<>>)
                     \o (IF yt_url # <<>> THEN <<UrlButton(LblYouTube, yt_url)>> ELSE <<>>)
    IN  <<links_row>>
        \o << <<CallbackButton(LblAdd, AddData(movie_id)),
                CallbackButton(LblDel, DelData(movie_id))>> >>
        \o << <<CallbackButton(LblMenu, DataMenu)>> >>

movie_actions_kb(movie_id, watch_url, yt_url) ==
    LET links_row == (IF watch_url # <<>> THEN <<UrlButton(LblJustWatch, watch_url)>> ELSE <<>>)
                     \o (IF yt_url # <<>> THEN <<UrlButton(LblYouTube, yt_url)>> ELSE <<>>)
    IN  (IF links_row # <<>> THEN <<links_row>> ELSE <<>>)
        \o << <<CallbackButton(LblAdd, AddData(movie_id)),
                CallbackButton(LblDel, DelData(movie_id))>> >>
        \o << <<CallbackButton(LblMenu, DataMenu)>> >>

-----------------------------------------------------------------------------
(* format_providers and get_provider_link.  providers_json is the dict of  *)
(* the watch/providers response: its "results" maps a region code to a     *)
(* dict with "link", "flatrate", "rent", "buy".                            *)

\* names(key): the provider names of a category, in order, without
\* repetition, a provider without a name left out
RECURSIVE NamesOf(_, _)
NamesOf(arr, acc) ==
    IF arr = <<>> THEN acc
    ELSE LET name == Get(arr[1], "provider_name")
         IN  IF name # <<>> /\ \A i \in 1..Len(acc) : acc[i] # name
             THEN NamesOf(Tail(arr), Append(acc, name))
             ELSE NamesOf(Tail(arr), acc)

names(info, key) == NamesOf(Get(info, key), <<>>)

\* results.get(region), then results.get("US") when that is falsy
RegionInfo(results, region) ==
    IF Get(results, region) # <<>> THEN Get(results, region) ELSE Get(results, RegionUS)

\* The head line naming the preferred region whatever entry is used.
used_region_preferred(results, region) == region

used_region(results, region) ==
    IF Get(results, region) # <<>> THEN region ELSE RegionUS

format_providers(providers_json, region) ==
    LET results == Get(providers_json, "results")
        info == RegionInfo(results, region)
        flatrate == names(info, "flatrate")
        rent == names(info, "rent")
        buy == names(info, "buy")
        lines == <<TxtWhereHead \o used_region(results, region) \o TxtWhereTail>>
                 \o (IF flatrate # <<>> THEN <<TxtFlatrate \o Join(flatrate, TxtCommaSp)>> ELSE <<>>)
                 \o (IF rent # <<>> THEN <<TxtRent \o Join(rent, TxtCommaSp)>> ELSE <<>>)
                 \o (IF buy # <<>> THEN <<TxtBuy \o Join(buy, TxtCommaSp)>> ELSE <<>>)
    IN  IF info = <<>> THEN TxtNotAvailable
        ELSE IF Len(lines) = 1 THEN TxtNotAvailable
        ELSE Join(lines, TxtNL)

get_provider_link(providers_json, region) ==
    LET results == Get(providers_json, "results")
        info == Or(Get(results, region), Get(results, RegionUS))
    IN  IF info = <<>> THEN <<>> ELSE Get(info, "link")

-----------------------------------------------------------------------------
(* DB: the table watchlist of data.db.  A row is                           *)
(* [user_id, movie_id, title, year, added_at]; PRIMARY KEY (user_id,       *)
(* movie_id) allows one row per key.  added_at is TEXT: the isoformat of   *)
(* datetime.utcnow(), compared as text by ORDER BY.                        *)

\* The instants of the model are microseconds of one minute of one day, so
\* the "YYYY-MM-DDTHH:MM:" every isoformat starts with is left out.
Micro == 1000000

Pad(s, w) == [i \in 1..(w - Len(s)) |-> "0"] \o s

\* datetime.isoformat(): "SS", and ".ffffff" only when the microsecond is
\* not zero
isoformat(t) ==
    Pad(NatToStr(t \div Micro), 2)
    \o (IF t % Micro = 0 THEN <<>> ELSE <<".">> \o Pad(NatToStr(t % Micro), 6))

\* The code points of the characters of a timestamp
CharCode(c) == IF c = "." THEN 46 ELSE 48 + DigitVal(c)

\* a < b in SQLite's BINARY collation: the first differing character
\* decides, a proper prefix is smaller
RECURSIVE TextLess(_, _)
TextLess(a, b) ==
    IF b = <<>> THEN FALSE
    ELSE IF a = <<>> THEN TRUE
    ELSE IF a[1] # b[1] THEN CharCode(a[1]) < CharCode(b[1])
    ELSE TextLess(Tail(a), Tail(b))

Row(u, m, title, year, at) ==
    [user_id |-> u, movie_id |-> m, title |-> title, year |-> year, added_at |-> at]

\* A plain INSERT on a table without the primary key: the old row stays.
db_add_watch_insert(st, u, m, title, year, t) ==
    st \cup {Row(u, m, title, Or(year, <<>>), isoformat(t))}

\* INSERT OR REPLACE INTO watchlist ... VALUES (user_id, movie_id, title,
\* year or "", utcnow().isoformat()): the row of the same key, if any, goes
db_add_watch(st, u, m, title, year, t) ==
    {r \in st : ~(r.user_id = u /\ r.movie_id = m)}
    \cup {Row(u, m, title, Or(year, <<>>), isoformat(t))}

\* A DELETE whose WHERE names the user only.
db_remove_watch_user(st, u, m) == {r \in st : r.user_id # u}

\* DELETE FROM watchlist WHERE user_id=? AND movie_id=?
db_remove_watch(st, u, m) == {r \in st : ~(r.user_id = u /\ r.movie_id = m)}

\* r comes before q under ORDER BY added_at DESC.  SQL leaves the order of
\* rows of equal added_at open; no reachable table has two such rows of one
\* user (DistinctAddedAt), and the model orders them by movie_id.
Before(r, q) ==
    \/ TextLess(q.added_at, r.added_at)
    \/ r.added_at = q.added_at /\ r.movie_id < q.movie_id

\* The rows of a set as a sequence, in the order the scan meets them
RECURSIVE SeqOf(_)
SeqOf(rows) ==
    IF rows = {} THEN <<>>
    ELSE LET r == CHOOSE x \in rows : TRUE IN <<r>> \o SeqOf(rows \ {r})

\* The rows of a set in ORDER BY added_at DESC
OrderByAddedAtDesc(rows) == SortSeq(SeqOf(rows), Before)

\* The SELECT without its LIMIT.
db_list_watch_all(st, u) ==
    LET sorted == OrderByAddedAtDesc({r \in st : r.user_id = u})
    IN  [i \in 1..Len(sorted) |->
            <<sorted[i].movie_id, sorted[i].title, sorted[i].year, sorted[i].added_at>>]

\* SELECT movie_id, title, year, added_at FROM watchlist WHERE user_id=?
\* ORDER BY added_at DESC LIMIT 50
db_list_watch(st, u) ==
    LET mine == {r \in st : r.user_id = u}
        sorted == Take(OrderByAddedAtDesc(mine), ListLimit)
    IN  [i \in 1..Len(sorted) |->
            <<sorted[i].movie_id, sorted[i].title, sorted[i].year, sorted[i].added_at>>]

-----------------------------------------------------------------------------
(* The bounds of the model.                                                *)

\* Users are 1..MaxUser.
MaxUser == 2

\* The movies the events name are MaxMovie consecutive ids from 9 on, so
\* that ids of one and of two digits occur.
MaxMovie == 2

\* How many instants the clock can still be read at.
MaxTick == 2

\* How many rows user 1 may have in data.db when the process starts.
MaxBulk == 50

Users == 1..MaxUser

MovieIds == {8 + i : i \in 1..MaxMovie}

\* The clock stands one microsecond before a full second, so the readings
\* are 56 (no fraction in its isoformat) and 56.000001.
ClockStart == 56 * Micro - 1

\* The table an earlier run of the bot left in data.db: k rows of user 1,
\* added with no detail cached, one a second, with movie ids from 101 on.
Bulk(k) == {Row(1, 100 + i, TxtMovie, <<>>, isoformat((i - 1) * Micro)) : i \in 1..k}

-----------------------------------------------------------------------------
(* The TMDB catalogue: what the API answers for a movie id.  A detail is   *)
(* either complete or carries only its id (title, release_date,            *)
(* poster_path, overview and genres absent or null).                       *)

FullTitle(m) == <<"F", "i", "l", "m", " ">> \o IntToStr(m)

FullDate(m) == <<"2", "0", "2", "1", "-", "1", "0", "-">> \o Pad(IntToStr(m), 2)

FullDetail(m) ==
    [id |-> m, title |-> FullTitle(m), release_date |-> FullDate(m),
     overview |-> <<" ", "S", "a", "n", "d", ".", " ">>,
     vote_average |-> <<"8", ".", "1">>,
     genres |-> <<[name |-> <<"D", "r", "a", "m", "a">>], [id |-> 18],
                  [name |-> <<"W", "a", "r">>]>>,
     poster_path |-> <<"/", "p", IntToStr(m)[1], ".", "j", "p", "g">>]

BareDetail(m) == [id |-> m, vote_average |-> <<"N", "o", "n", "e">>]

DetailsOf(m) == {FullDetail(m), BareDetail(m)}

-----------------------------------------------------------------------------
(* The db_* functions called directly, on a table that may hold rows of an *)
(* earlier run (db_init creates the table only if it does not exist).      *)

\* A call of a db_* function: its arguments, whether the table held the
\* key when it was made, whether it raised.
NoDbCall ==
    [fn |-> "none", user_id |-> 0, movie_id |-> 0, title |-> <<>>, year |-> <<>>,
     existed |-> FALSE, raised |-> FALSE]

DbCall(fn, u, m, title, year, existed) ==
    [fn |-> fn, user_id |-> u, movie_id |-> m, title |-> title, year |-> year,
     existed |-> existed, raised |-> FALSE]

HasRow(st, u, m) == \E r \in st : r.user_id = u /\ r.movie_id = m

\* The readings datetime.utcnow() can still return: the clock moves on
\* between two calls and never runs backwards.  One microsecond a call
\* takes the readings over the full second.
Readings == {t \in {clock + 1} : t <= ClockStart + MaxTick}

None == [none |-> TRUE]

\* No update has been taken yet.
NoTask ==
    [pc |-> "idle", handler |-> "", user |-> 0, data |-> <<>>, movie_id |-> 0,
     details |-> None, exc |-> ""]

NoCall == [fn |-> "none"]

\* The environment of a process that has started and serves updates.
EnvSet == [BOT_TOKEN |-> TRUE, TMDB_API_KEY |-> TRUE, WEBHOOK_BASE |-> FALSE]

\* No handler is waiting.
NoParked == [task |-> NoTask, out |-> <<>>, reqs |-> <<>>]

\* No user has sent a watchlist callback, no db_* call has raised.
NoHistory ==
    [last |-> [u \in Users |-> [m \in MovieIds |-> "none"]], failed |-> FALSE]

AuxIdle == parked = NoParked /\ history = NoHistory

BotIdle ==
    /\ env = EnvSet
    /\ phase = "serving"
    /\ user_data = [u \in Users |-> None]
    /\ task = NoTask
    /\ out = <<>>
    /\ reqs = <<>>
    /\ nevents = 0
    /\ AuxIdle

FmtIdle == fcall = NoCall /\ fret = <<>>

StoreIdle == dbcall = NoDbCall /\ dbrows = <<>> /\ clock = ClockStart

auxVars == <<parked, history>>

botVars == <<env, phase, user_data, task, out, reqs, nevents, auxVars>>

fmtVars == <<fcall, fret>>

storeVars == <<store, clock, dbcall, dbrows>>

\* The movie ids and the (title, year) pairs the direct calls are made with
StoreMovieIds == {9, 101}

StoreTitles == {<<TxtMovie, <<>>>>, <<FullTitle(9), Take(FullDate(9), 4)>>}

InitStore ==
    /\ store \in {Bulk(0), Bulk(MaxBulk)}
    /\ StoreIdle
    /\ BotIdle
    /\ FmtIdle

DbAdd(u, m, ty) ==
    \E t \in Readings :
        /\ clock' = t
        /\ store' = db_add_watch(store, u, m, ty[1], ty[2], t)
        /\ dbcall' = DbCall("db_add_watch", u, m, ty[1], ty[2], HasRow(store, u, m))
        /\ dbrows' = <<>>
        /\ UNCHANGED <<botVars, fmtVars>>

DbRemove(u, m) ==
    /\ store' = db_remove_watch(store, u, m)
    /\ dbcall' = DbCall("db_remove_watch", u, m, <<>>, <<>>, HasRow(store, u, m))
    /\ dbrows' = <<>>
    /\ UNCHANGED <<clock, botVars, fmtVars>>

DbList(u) ==
    /\ dbrows' = db_list_watch(store, u)
    /\ dbcall' = DbCall("db_list_watch", u, 0, <<>>, <<>>, FALSE)
    /\ UNCHANGED <<store, clock, botVars, fmtVars>>

NextStore ==
    \/ \E u \in Users, m \in StoreMovieIds, ty \in StoreTitles : DbAdd(u, m, ty)
    \/ \E u \in Users, m \in StoreMovieIds : DbRemove(u, m)
    \/ \E u \in Users : DbList(u)

SpecStore == InitStore /\ [][NextStore]_vars

\* No two rows of a user carry the same added_at, and no two rows the same
\* key.
DistinctAddedAt ==
    \A r, q \in store :
        r.user_id = q.user_id /\ (r.added_at = q.added_at \/ r.movie_id = q.movie_id)
            => r = q

-----------------------------------------------------------------------------
(* Startup: main() runs check_env and db_init before it builds the         *)
(* application and registers the handlers.                                 *)

\* check_env without the test of TMDB_API_KEY.
check_env_raises_token(e, require_webhook) ==
    \/ ~e.BOT_TOKEN
    \/ require_webhook /\ ~e.WEBHOOK_BASE

\* check_env(require_webhook) raises RuntimeError
check_env_raises(e, require_webhook) ==
    \/ ~e.BOT_TOKEN
    \/ ~e.TMDB_API_KEY
    \/ require_webhook /\ ~e.WEBHOOK_BASE

\* main(): run_polling() when WEBHOOK_BASE is not set, run_webhook()
\* otherwise; either starts with check_env.
Startup ==
    /\ phase = "boot"
    /\ phase' = IF check_env_raises(env, env.WEBHOOK_BASE) THEN "aborted" ELSE "serving"
    /\ UNCHANGED <<env, storeVars, user_data, task, out, reqs, nevents, fmtVars, auxVars>>

-----------------------------------------------------------------------------
(* The handlers.  build_tg_app builds the Application without              *)
(* concurrent_updates, so an update is handled to its end before the next  *)
(* is taken.  A handler runs from one await of a TMDB call (or of          *)
(* q.answer()) to the next in one step; sending a reply is an await too,   *)
(* but no handler reads or writes user_data or the table after a reply, so *)
(* a reply is sent within the step.                                        *)

\* How many updates a run takes.
MaxEvents == 3

Task(pc, handler, u, data, m, details, exc) ==
    [pc |-> pc, handler |-> handler, user |-> u, data |-> data, movie_id |-> m,
     details |-> details, exc |-> exc]

\* The keyboards a reply carries
ReplyKb == [kind |-> "reply", rows |-> main_menu_kb]

InlineKb(rows) == [kind |-> "inline", rows |-> rows]

NoKb == [kind |-> "none", rows |-> <<>>]

ReplyText(text, kb) == [method |-> "reply_text", text |-> text, kb |-> kb, photo |-> <<>>]

ReplyPhoto(photo, caption, kb) ==
    [method |-> "reply_photo", text |-> caption, kb |-> kb, photo |-> photo]

\* A request of tmdb_get_json: the path and the query of its params
Request(path, query) == [path |-> path, query |-> query]

Free == phase = "serving" /\ task.pc \in {"idle", "done", "raised"} /\ nevents < MaxEvents

\* The handler returns.
Return(handler, u, data) == Task("done", handler, u, data, 0, None, "")

\* An exception leaves the handler.
Raise(handler, u, data, exc) == Task("raised", handler, u, data, 0, None, exc)

\* start() and help_cmd()
OnCommand(u, cmd) ==
    /\ Free
    /\ nevents' = nevents + 1
    /\ reqs' = <<>>
    /\ out' = <<ReplyText(IF cmd = "start" THEN MsgStart ELSE MsgHelp, ReplyKb)>>
    /\ task' = Return(cmd, u, <<>>)
    /\ UNCHANGED <<env, phase, storeVars, user_data, fmtVars, auxVars>>

\* The lines and the buttons of show_watchlist for rows[:10]
WatchlistLabel(row) == LabelOf(row[2], row[3])

WatchlistText(rows) ==
    Join(<<MsgWatchlistHead>>
         \o [i \in 1..Len(rows) |-> TxtBullet \o WatchlistLabel(rows[i])], TxtNL)

WatchlistKb(rows) ==
    [i \in 1..Len(rows) |->
        <<CallbackButton(Take(WatchlistLabel(rows[i]), LabelMax), SelectData(rows[i][1]))>>]
    \o << <<CallbackButton(LblMenu, DataMenu)>> >>

\* What show_watchlist sends for the rows db_list_watch returned
show_watchlist_reply(rows) ==
    IF rows = <<>> THEN ReplyText(MsgWatchlistEmpty, ReplyKb)
    ELSE ReplyText(WatchlistText(Take(rows, ListShown)),
                   InlineKb(WatchlistKb(Take(rows, ListShown))))

\* handle_text without the test for the search label: the label is
\* searched like a title.
TextStep_searchall(u, text) ==
    LET t == Strip(text)
    IN  IF t = <<>> THEN
            /\ out' = <<>> /\ reqs' = <<>>
            /\ task' = Return("handle_text", u, text)
        ELSE IF t = BtnTrending THEN
            /\ out' = <<ReplyText(MsgTrendingLoading, NoKb)>>
            /\ reqs' = <<Request(PathTrending, <<>>)>>
            /\ task' = Task("trending", "handle_text", u, text, 0, None, "")
        ELSE IF t = BtnHelp THEN
            /\ out' = <<ReplyText(MsgHelp, ReplyKb)>> /\ reqs' = <<>>
            /\ task' = Return("handle_text", u, text)
        ELSE
            /\ out' = <<ReplyText(MsgSearching, NoKb)>>
            /\ reqs' = <<Request(PathSearch, t)>>
            /\ task' = Task("search", "handle_text", u, text, 0, None, "")

\* handle_text for one of the four menu labels other than the watchlist,
\* for an empty text, and for a free text: up to the await of the search
\* or of the trending request, or to the return.
TextStep(u, text) ==
    LET t == Strip(text)
    IN  IF t = <<>> THEN
            /\ out' = <<>> /\ reqs' = <<>>
            /\ task' = Return("handle_text", u, text)
        ELSE IF t = BtnSearch THEN
            /\ out' = <<ReplyText(MsgSearchPrompt, ReplyKb)>> /\ reqs' = <<>>
            /\ task' = Return("handle_text", u, text)
        ELSE IF t = BtnTrending THEN
            /\ out' = <<ReplyText(MsgTrendingLoading, NoKb)>>
            /\ reqs' = <<Request(PathTrending, <<>>)>>
            /\ task' = Task("trending", "handle_text", u, text, 0, None, "")
        ELSE IF t = BtnHelp THEN
            /\ out' = <<ReplyText(MsgHelp, ReplyKb)>> /\ reqs' = <<>>
            /\ task' = Return("handle_text", u, text)
        ELSE IF ~env.TMDB_API_KEY THEN
            /\ out' = <<ReplyText(MsgNoKeyText, ReplyKb)>> /\ reqs' = <<>>
            /\ task' = Return("handle_text", u, text)
        ELSE
            /\ out' = <<ReplyText(MsgSearching, NoKb)>>
            /\ reqs' = <<Request(PathSearch, t)>>
            /\ task' = Task("search", "handle_text", u, text, 0, None, "")

OnText(u, text) ==
    /\ Free
    /\ Strip(text) # BtnWatchlist
    /\ nevents' = nevents + 1
    /\ TextStep(u, text)
    /\ UNCHANGED <<env, phase, storeVars, user_data, fmtVars, auxVars>>

\* handle_text for the watchlist label: show_watchlist, whose
\* db_list_watch returns the rows
OnWatchlist(u, text) ==
    /\ Free
    /\ Strip(text) = BtnWatchlist
    /\ nevents' = nevents + 1
    /\ reqs' = <<>>
    /\ dbrows' = db_list_watch(store, u)
    /\ dbcall' = DbCall("db_list_watch", u, 0, <<>>, <<>>, FALSE)
    /\ out' = <<show_watchlist_reply(dbrows')>>
    /\ task' = Return("handle_text", u, text)
    /\ UNCHANGED <<env, phase, store, clock, user_data, fmtVars, auxVars>>

\* ... or sqlite3 raises, and nothing handles it
OnWatchlistStorageFails(u, text) ==
    /\ Free
    /\ Strip(text) = BtnWatchlist
    /\ nevents' = nevents + 1
    /\ reqs' = <<>>
    /\ dbrows' = <<>>
    /\ dbcall' = [DbCall("db_list_watch", u, 0, <<>>, <<>>, FALSE) EXCEPT !.raised = TRUE]
    /\ out' = <<>>
    /\ task' = Raise("handle_text", u, text, "sqlite3.Error")
    /\ history' = [history EXCEPT !.failed = TRUE]
    /\ UNCHANGED <<env, phase, store, clock, user_data, fmtVars, parked>>

\* What handle_text sends for the results of the search
search_reply(results) ==
    IF results = <<>> THEN ReplyText(MsgNothingFound, ReplyKb)
    ELSE ReplyText(MsgResults, InlineKb(results_inline_kb(results)))

\* The search returns: results = data.get("results", []) or []
SearchReturns(results) ==
    /\ task.pc = "search"
    /\ out' = Append(out, search_reply(results))
    /\ task' = Return(task.handler, task.user, task.data)
    /\ UNCHANGED <<env, phase, storeVars, user_data, reqs, nevents, fmtVars, auxVars>>

\* tmdb_get_json raises RuntimeError on a status other than 200, and the
\* timeout of the request raises TimeoutError; no handler catches either.
RequestFails(exc) ==
    /\ task.pc \in {"search", "trending", "details", "providers"}
    /\ task' = Raise(task.handler, task.user, task.data, exc)
    /\ UNCHANGED <<env, phase, storeVars, user_data, out, reqs, nevents, fmtVars, auxVars>>

\* The lines and the buttons of show_trending for results[:5]
TrendingLine(r) ==
    IF YearOf(r) # <<>>
    THEN TxtBullet \o TitleOf(r) \o TxtParOpen \o YearOf(r) \o TxtParClose
    ELSE TxtBullet \o TitleOf(r)

TrendingButton(r) ==
    CallbackButton(Take(TitleOf(r) \o TxtParOpen \o YearOf(r) \o TxtParClose, LabelMax),
                   SelectData(r["id"]))

show_trending_reply(data) ==
    LET results == Take(Get(data, "results"), ListShown)
        shown == Take(results, ResultsShown)
    IN  IF results = <<>> THEN ReplyText(MsgTrendingEmpty, ReplyKb)
        ELSE ReplyText(
                Join(<<MsgTrendingHead>> \o [i \in 1..Len(shown) |-> TrendingLine(shown[i])],
                     TxtNL),
                InlineKb([i \in 1..Len(shown) |-> <<TrendingButton(shown[i])>>]
                         \o << <<CallbackButton(LblMenu, DataMenu)>> >>))

TrendingReturns(data) ==
    /\ task.pc = "trending"
    /\ out' = Append(out, show_trending_reply(data))
    /\ task' = Return(task.handler, task.user, task.data)
    /\ UNCHANGED <<env, phase, storeVars, user_data, reqs, nevents, fmtVars, auxVars>>

\* The branches with the selection tag matched in either case.
Branch_anycase(data) ==
    IF data = DataCancel THEN "cancel"
    ELSE IF data = DataMenu THEN "menu"
    ELSE IF StartsWith(data, TagAdd) THEN "add"
    ELSE IF StartsWith(data, TagDel) THEN "del"
    ELSE IF StartsWith(data, TagM) \/ StartsWith(data, <<"M", ":">>) THEN "select"
    ELSE "none"

\* Which branch of on_callback the data takes: the tests are made in this
\* order, the first that holds wins.
Branch(data) ==
    IF data = DataCancel THEN "cancel"
    ELSE IF data = DataMenu THEN "menu"
    ELSE IF StartsWith(data, TagAdd) THEN "add"
    ELSE IF StartsWith(data, TagDel) THEN "del"
    ELSE IF StartsWith(data, TagM) THEN "select"
    ELSE "none"

\* int(data.split(":")[2]) of the watchlist branches, int(data.split(":")[1])
\* of the selection
IdArg(data) ==
    IF Branch(data) = "select" THEN PyInt(Split(data, ":")[2])
    ELSE PyInt(Split(data, ":")[3])

\* The history once user u has sent the callback data: a callback that
\* on_callback takes as an add or a remove of a movie (its id is whatever
\* int() reads) is the last one of u for that movie.
Sent(h, u, data) ==
    IF Branch(data) \in {"add", "del"} /\ IdArg(data).ok /\ IdArg(data).val \in MovieIds
    THEN [h EXCEPT !.last[u][IdArg(data).val] = Branch(data)]
    ELSE h

\* on_callback up to `await q.answer()`
OnCallback(u, data) ==
    /\ Free
    /\ nevents' = nevents + 1
    /\ out' = <<>>
    /\ reqs' = <<>>
    /\ task' = Task("answer", "on_callback", u, data, 0, None, "")
    /\ history' = Sent(history, u, data)
    /\ UNCHANGED <<env, phase, storeVars, user_data, fmtVars, parked>>

Answered == task.pc = "answer"

\* data == "cancel", data == "menu"
CbCancel ==
    /\ Answered
    /\ task.data = DataCancel
    /\ out' = Append(out, ReplyText(MsgCancelled, ReplyKb))
    /\ task' = Return(task.handler, task.user, task.data)
    /\ UNCHANGED <<env, phase, storeVars, user_data, reqs, nevents, fmtVars, auxVars>>

CbMenu ==
    /\ Answered
    /\ task.data = DataMenu
    /\ out' = Append(out, ReplyText(MsgMenu, ReplyKb))
    /\ task' = Return(task.handler, task.user, task.data)
    /\ UNCHANGED <<env, phase, storeVars, user_data, reqs, nevents, fmtVars, auxVars>>

\* The title of the last viewed movie taken whatever its id.
AddTitle_any(last_movie, movie_id) ==
    IF last_movie # None
    THEN <<TitleOf(last_movie), YearOf(last_movie)>>
    ELSE <<TxtMovie, <<>>>>

\* title, year of the row "w:add" writes
AddTitle(last_movie, movie_id) ==
    IF last_movie # None /\ Get(last_movie, "id") = movie_id
    THEN <<TitleOf(last_movie), YearOf(last_movie)>>
    ELSE <<TxtMovie, <<>>>>

\* "w:add" that writes the row only when the movie is the last viewed one.
CbAdd_gated ==
    /\ Answered
    /\ Branch(task.data) = "add"
    /\ IdArg(task.data).ok
    /\ \E t \in Readings :
        LET movie_id == IdArg(task.data).val
            ty == AddTitle(user_data[task.user], movie_id)
            shown == user_data[task.user] # None
                     /\ Get(user_data[task.user], "id") = movie_id
        IN  /\ clock' = t
            /\ store' = IF shown
                        THEN db_add_watch(store, task.user, movie_id, ty[1], ty[2], t)
                        ELSE store
            /\ dbcall' = DbCall("db_add_watch", task.user, movie_id, ty[1], ty[2],
                                HasRow(store, task.user, movie_id))
    /\ dbrows' = <<>>
    /\ out' = Append(out, ReplyText(MsgAdded, ReplyKb))
    /\ task' = Return(task.handler, task.user, task.data)
    /\ UNCHANGED <<env, phase, user_data, reqs, nevents, fmtVars, auxVars>>

\* data.startswith("w:add:")
CbAdd ==
    /\ Answered
    /\ Branch(task.data) = "add"
    /\ IdArg(task.data).ok
    /\ \E t \in Readings :
        LET movie_id == IdArg(task.data).val
            ty == AddTitle(user_data[task.user], movie_id)
        IN  /\ clock' = t
            /\ store' = db_add_watch(store, task.user, movie_id, ty[1], ty[2], t)
            /\ dbcall' = DbCall("db_add_watch", task.user, movie_id, ty[1], ty[2],
                                HasRow(store, task.user, movie_id))
    /\ dbrows' = <<>>
    /\ out' = Append(out, ReplyText(MsgAdded, ReplyKb))
    /\ task' = Return(task.handler, task.user, task.data)
    /\ UNCHANGED <<env, phase, user_data, reqs, nevents, fmtVars, auxVars>>

\* data.startswith("w:del:")
CbDel ==
    /\ Answered
    /\ Branch(task.data) = "del"
    /\ IdArg(task.data).ok
    /\ LET movie_id == IdArg(task.data).val
       IN  /\ store' = db_remove_watch(store, task.user, movie_id)
           /\ dbcall' = DbCall("db_remove_watch", task.user, movie_id, <<>>, <<>>,
                               HasRow(store, task.user, movie_id))
    /\ dbrows' = <<>>
    /\ out' = Append(out, ReplyText(MsgRemoved, ReplyKb))
    /\ task' = Return(task.handler, task.user, task.data)
    /\ UNCHANGED <<env, phase, clock, user_data, reqs, nevents, fmtVars, auxVars>>

\* db_add_watch or db_remove_watch raises: sqlite3 cannot open or write the
\* file.  Nothing in on_callback handles it.
CbStorageFails ==
    /\ Answered
    /\ Branch(task.data) \in {"add", "del"}
    /\ IdArg(task.data).ok
    /\ LET movie_id == IdArg(task.data).val
           ty == AddTitle(user_data[task.user], movie_id)
       IN  dbcall' =
             [(IF Branch(task.data) = "add"
               THEN DbCall("db_add_watch", task.user, movie_id, ty[1], ty[2],
                           HasRow(store, task.user, movie_id))
               ELSE DbCall("db_remove_watch", task.user, movie_id, <<>>, <<>>,
                           HasRow(store, task.user, movie_id)))
              EXCEPT !.raised = TRUE]
    /\ dbrows' = <<>>
    /\ task' = Raise(task.handler, task.user, task.data, "sqlite3.Error")
    /\ history' = [history EXCEPT !.failed = TRUE]
    /\ UNCHANGED <<env, phase, store, clock, user_data, out, reqs, nevents, fmtVars, parked>>

\* int() raises ValueError on the id argument of "w:add:", "w:del:" or "m:".
\* Nothing in on_callback handles it.
CbBadId ==
    /\ Answered
    /\ Branch(task.data) \in {"add", "del", "select"}
    /\ Branch(task.data) = "select" => env.TMDB_API_KEY
    /\ ~IdArg(task.data).ok
    /\ task' = Raise(task.handler, task.user, task.data, "ValueError")
    /\ UNCHANGED <<env, phase, storeVars, user_data, out, reqs, nevents, fmtVars, auxVars>>

\* The selection with the two requests issued together.
CbSelect_parallel ==
    /\ Answered
    /\ Branch(task.data) = "select"
    /\ ~env.TMDB_API_KEY \/ IdArg(task.data).ok
    /\ IF ~env.TMDB_API_KEY THEN
            /\ out' = Append(out, ReplyText(MsgNoKeyCb, ReplyKb))
            /\ reqs' = reqs
            /\ task' = Return(task.handler, task.user, task.data)
       ELSE
            /\ out' = out
            /\ reqs' = reqs \o <<Request(PathMovie \o IntToStr(IdArg(task.data).val), <<>>),
                                  Request(PathMovie \o IntToStr(IdArg(task.data).val)
                                          \o PathProviders, <<>>)>>
            /\ task' = [task EXCEPT !.pc = "details", !.movie_id = IdArg(task.data).val]
    /\ UNCHANGED <<env, phase, storeVars, user_data, nevents, fmtVars, auxVars>>

\* data.startswith("m:"): up to the await of get_movie_details
CbSelect ==
    /\ Answered
    /\ Branch(task.data) = "select"
    /\ ~env.TMDB_API_KEY \/ IdArg(task.data).ok
    /\ IF ~env.TMDB_API_KEY THEN
            /\ out' = Append(out, ReplyText(MsgNoKeyCb, ReplyKb))
            /\ reqs' = reqs
            /\ task' = Return(task.handler, task.user, task.data)
       ELSE
            /\ out' = out
            /\ reqs' = Append(reqs, Request(PathMovie \o IntToStr(IdArg(task.data).val), <<>>))
            /\ task' = [task EXCEPT !.pc = "details", !.movie_id = IdArg(task.data).val]
    /\ UNCHANGED <<env, phase, storeVars, user_data, nevents, fmtVars, auxVars>>

\* No branch takes the data: on_callback falls off its end.
CbIgnored ==
    /\ Answered
    /\ Branch(task.data) = "none"
    /\ task' = Return(task.handler, task.user, task.data)
    /\ UNCHANGED <<env, phase, storeVars, user_data, out, reqs, nevents, fmtVars, auxVars>>

\* The detail stored as the last viewed movie as soon as it is fetched.
DetailsReturns_early(details) ==
    /\ task.pc = "details"
    /\ reqs' = Append(reqs,
                Request(PathMovie \o IntToStr(task.movie_id) \o PathProviders, <<>>))
    /\ task' = [task EXCEPT !.pc = "providers", !.details = details]
    /\ user_data' = [user_data EXCEPT ![task.user] = details]
    /\ UNCHANGED <<env, phase, storeVars, out, nevents, fmtVars, auxVars>>

\* get_movie_details returns; get_movie_providers is awaited next
DetailsReturns(details) ==
    /\ task.pc = "details"
    /\ reqs' = Append(reqs,
                Request(PathMovie \o IntToStr(task.movie_id) \o PathProviders, <<>>))
    /\ task' = [task EXCEPT !.pc = "providers", !.details = details]
    /\ UNCHANGED <<env, phase, storeVars, user_data, out, nevents, fmtVars, auxVars>>

\* ", ".join([g.get("name") for g in genres if g.get("name")]) or "-"
RECURSIVE GenreNames(_)
GenreNames(gs) ==
    IF gs = <<>> THEN <<>>
    ELSE (IF Get(gs[1], "name") # <<>> THEN <<Get(gs[1], "name")>> ELSE <<>>)
         \o GenreNames(Tail(gs))

\* text_out of the detail card
text_out(details, providers) ==
    LET title == TitleOf(details)
        year == YearOf(details)
        overview == Strip(Or(Get(details, "overview"), TxtDash))
        vote == Get(details, "vote_average")
        genres == Or(Join(GenreNames(Get(details, "genres")), TxtCommaSp), TxtDash)
    IN  TxtCardHead \o title \o TxtStar
        \o (IF year # <<>> THEN TxtParOpen \o year \o TxtParClose ELSE <<>>)
        \o TxtNLNL
        \o TxtRating \o vote \o TxtRatingEnd
        \o TxtGenre \o genres \o TxtNLNL
        \o TxtOverview \o overview \o TxtNLNL
        \o format_providers(providers, DEFAULT_REGION)

\* The reply of the selection: a photo with the caption cut to 1020
\* characters when the detail has a poster, a text otherwise
detail_reply(movie_id, details, providers) ==
    LET kb == InlineKb(movie_actions_kb(
                    movie_id,
                    get_provider_link(providers, DEFAULT_REGION),
                    youtube_search_url(TitleOf(details), YearOf(details))))
    IN  IF Get(details, "poster_path") # <<>>
        THEN ReplyPhoto(TMDB_IMG \o Get(details, "poster_path"),
                        Take(text_out(details, providers), CaptionMax), kb)
        ELSE ReplyText(text_out(details, providers), kb)

\* The last viewed movie kept in one place for all users.
ProvidersReturns_shared(providers) ==
    /\ task.pc = "providers"
    /\ user_data' = [u \in Users |-> task.details]
    /\ out' = Append(out, detail_reply(task.movie_id, task.details, providers))
    /\ task' = [task EXCEPT !.pc = "done"]
    /\ UNCHANGED <<env, phase, storeVars, reqs, nevents, fmtVars, auxVars>>

\* get_movie_providers returns: user_data["last_movie"] = details, then the
\* card is sent
ProvidersReturns(providers) ==
    /\ task.pc = "providers"
    /\ user_data' = [user_data EXCEPT ![task.user] = task.details]
    /\ out' = Append(out, detail_reply(task.movie_id, task.details, providers))
    /\ task' = [task EXCEPT !.pc = "done"]
    /\ UNCHANGED <<env, phase, storeVars, reqs, nevents, fmtVars, auxVars>>

-----------------------------------------------------------------------------
(* The updates and the TMDB answers the model draws from.                  *)

Query == <<"D", "u", "n", "e">>

\* Text messages other than the watchlist label: the other three labels, a
\* blank text, a query, a query with blanks around it
Texts == {BtnSearch, BtnTrending, BtnHelp, <<" ">>, Query, <<" ">> \o Query \o <<" ">>}

WatchlistTexts == {BtnWatchlist, BtnWatchlist \o <<" ">>}

\* Callback data: what the keyboards of the bot carry for the movies of the
\* model, data whose id argument int() rejects, data whose id argument
\* int() accepts though no keyboard carries it, and data no branch takes
Payloads ==
    {SelectData(m) : m \in MovieIds} \cup {AddData(m) : m \in MovieIds}
    \cup {DelData(m) : m \in MovieIds} \cup {DataMenu, DataCancel}
    \cup {TagAdd, TagDel \o <<"a", "b", "c">>, TagM, TagM \o <<"x", "1">>}
    \cup {TagAdd \o <<" ", "9">>, TagM \o <<"9", ":", "x">>}
    \cup {<<>>, <<"w", ":", "a", "d", "d">>, <<"M", ":", "9">>}

FullSummary(m) == [id |-> m, title |-> FullTitle(m), release_date |-> FullDate(m)]

BareSummary(m) == [id |-> m]

\* The result lists of a search: none, two, and more than are shown
SearchResults ==
    {<<>>,
     <<FullSummary(9), BareSummary(10)>>,
     [i \in 1..(ResultsShown + 1) |-> FullSummary(8 + i)]}

\* The bodies of a trending response: no "results", and six movies the
\* third of which has no release date
TrendingData ==
    {<<>>,
     [results |-> [i \in 1..(ResultsShown + 1) |->
                    IF i = 3 THEN BareSummary(8 + i) ELSE FullSummary(8 + i)]]}

Provider(name) == [provider_id |-> 8, provider_name |-> name]

Netflix == <<"N", "e", "t", "f", "l", "i", "x">>

Apple == <<"A", "p", "p", "l", "e">>

JustWatchLink(region) == <<"j", "w", "/">> \o region

\* The bodies of a watch/providers response: no region at all, the default
\* region with a subscription, only the fallback region with a rental
ProviderJsons ==
    {[id |-> 1],
     [results |-> (DEFAULT_REGION :>
        (("link" :> JustWatchLink(DEFAULT_REGION)) @@ ("flatrate" :> <<Provider(Netflix)>>)))],
     [results |-> (RegionUS :>
        (("link" :> JustWatchLink(RegionUS)) @@ ("rent" :> <<Provider(Apple)>>)))]}

-----------------------------------------------------------------------------
(* The bot: the process from its start on, with a fresh data.db.           *)

Init ==
    /\ env \in [BOT_TOKEN : BOOLEAN, TMDB_API_KEY : BOOLEAN, WEBHOOK_BASE : BOOLEAN]
    /\ phase = "boot"
    /\ store = {}
    /\ StoreIdle
    /\ user_data = [u \in Users |-> None]
    /\ task = NoTask
    /\ out = <<>>
    /\ reqs = <<>>
    /\ nevents = 0
    /\ FmtIdle
    /\ AuxIdle

Next ==
    \/ Startup
    \/ \E u \in Users, cmd \in {"start", "help"} : OnCommand(u, cmd)
    \/ \E u \in Users, text \in Texts : OnText(u, text)
    \/ \E u \in Users, text \in WatchlistTexts : OnWatchlist(u, text)
    \/ \E u \in Users, text \in WatchlistTexts : OnWatchlistStorageFails(u, text)
    \/ \E results \in SearchResults : SearchReturns(results)
    \/ \E data \in TrendingData : TrendingReturns(data)
    \/ \E exc \in {"RuntimeError", "TimeoutError"} : RequestFails(exc)
    \/ \E u \in Users, data \in Payloads : OnCallback(u, data)
    \/ CbCancel
    \/ CbMenu
    \/ CbAdd
    \/ CbDel
    \/ CbStorageFails
    \/ CbBadId
    \/ CbSelect
    \/ CbIgnored
    \/ \E details \in DetailsOf(task.movie_id) : DetailsReturns(details)
    \/ \E providers \in ProviderJsons : ProvidersReturns(providers)

Spec == Init /\ [][Next]_vars

TypeOK ==
    /\ phase \in {"boot", "serving", "aborted"}
    /\ task.pc \in {"idle", "answer", "details", "providers", "search", "trending",
                    "done", "raised"}
    /\ nevents \in 0..MaxEvents
    /\ clock \in ClockStart..(ClockStart + MaxTick)
    /\ \A u \in Users : user_data[u] = None \/ user_data[u].id \in MovieIds

-----------------------------------------------------------------------------
(* The presentation functions on their own: a call is drawn, then made.    *)

\* How long a result list the search reply is called with.
MaxResults == 6

\* A title so long that its label passes 60 characters once the year is
\* added, and one that passes them alone
LongTitle(n) == [i \in 1..n |-> "x"]

\* The summaries of the result lists: complete, bare, with a title but no
\* release date, and with a label over the limit
Summaries ==
    {FullSummary(9), BareSummary(10), [id |-> 11, title |-> LongTitle(LabelMax + 1)],
     [id |-> 12, title |-> LongTitle(LabelMax - 2), release_date |-> FullDate(12)]}

RECURSIVE SeqsUpTo(_, _)
SeqsUpTo(S, n) ==
    IF n = 0 THEN {<<>>}
    ELSE LET shorter == SeqsUpTo(S, n - 1)
         IN  shorter \cup {Append(s, x) : s \in {t \in shorter : Len(t) = n - 1}, x \in S}

Pending == [pending |-> TRUE]

InitResults ==
    /\ fcall \in {[fn |-> "search_reply", args |-> rs] : rs \in SeqsUpTo(Summaries, MaxResults)}
    /\ fret = Pending
    /\ store = {}
    /\ StoreIdle
    /\ BotIdle

ApplyResults ==
    /\ fcall.fn = "search_reply"
    /\ fret = Pending
    /\ fret' = search_reply(fcall.args)
    /\ UNCHANGED <<fcall, storeVars, botVars>>

SpecResults == InitResults /\ [][ApplyResults]_vars

\* The dicts a region of a watch/providers response maps to: empty, a link
\* alone, a rental, a subscription named twice with a purchase, a rental by
\* a provider without a name, an empty subscription list
RegionInfos ==
    {<<>>,
     ("link" :> JustWatchLink(RegionUS)),
     ("rent" :> <<Provider(Apple)>>),
     (("flatrate" :> <<Provider(Netflix), Provider(Apple), Provider(Netflix)>>)
        @@ ("buy" :> <<Provider(Apple)>>)),
     ("rent" :> <<[provider_id |-> 3]>>),
     (("flatrate" :> <<>>) @@ ("link" :> JustWatchLink(RegionUS)))}

RegionDE == <<"D", "E">>

\* The "results" of a response: each of the three regions absent or mapped
\* to one of the dicts
ResultMaps ==
    {[r \in keys |-> f[r]] :
        keys \in SUBSET {DEFAULT_REGION, RegionUS, RegionDE},
        f \in [{DEFAULT_REGION, RegionUS, RegionDE} -> RegionInfos]}

InitProviders ==
    /\ \E rm \in ResultMaps, region \in {DEFAULT_REGION, RegionDE}, bare \in BOOLEAN :
          fcall = [fn |-> "format_providers",
                   args |-> <<IF bare THEN [id |-> 1] ELSE [id |-> 1, results |-> rm], region>>]
    /\ fret = Pending
    /\ store = {}
    /\ StoreIdle
    /\ BotIdle

ApplyProviders ==
    /\ fcall.fn = "format_providers"
    /\ fret = Pending
    /\ fret' = format_providers(fcall.args[1], fcall.args[2])
    /\ UNCHANGED <<fcall, storeVars, botVars>>

SpecProviders == InitProviders /\ [][ApplyProviders]_vars


\* The movie ids movie_actions_kb is called with are 0..MaxActionId.
MaxActionId == 42

\* The links it is called with: none (None or ""), a JustWatch link, a
\* YouTube search link
WatchUrls == {<<>>, JustWatchLink(DEFAULT_REGION), JustWatchLink(RegionUS)}

YtUrls == {<<>>, youtube_search_url(FullTitle(9), <<>>),
           youtube_search_url(FullTitle(9), Take(FullDate(9), 4))}

InitActions ==
    /\ \E id \in 0..MaxActionId, w \in WatchUrls, y \in YtUrls :
          fcall = [fn |-> "movie_actions_kb", args |-> <<id, w, y>>]
    /\ fret = Pending
    /\ store = {}
    /\ StoreIdle
    /\ BotIdle

ApplyActions ==
    /\ fcall.fn = "movie_actions_kb"
    /\ fret = Pending
    /\ fret' = movie_actions_kb(fcall.args[1], fcall.args[2], fcall.args[3])
    /\ UNCHANGED <<fcall, storeVars, botVars>>

SpecActions == InitActions /\ [][ApplyActions]_vars

-----------------------------------------------------------------------------
(* Two handlers of one user at once.  build_tg_app builds the Application  *)
(* without concurrent_updates, so the handlers of two updates do not       *)
(* overlap in this build; the specification below lets them overlap all    *)
(* the same, one handler running while the other waits at one of its       *)
(* awaits, so that what holds under it holds under any setting of the      *)
(* Application.  user_data and the table are shared by the two handlers;   *)
(* the replies and the requests are kept per handler.                      *)

\* The user whose updates race: the handlers treat all users alike, so
\* the first one stands for any.
RaceUser == CHOOSE u \in Users : \A v \in Users : u <= v

\* The callbacks that read or write user_data or the table
RacePayloads ==
    {SelectData(m) : m \in MovieIds} \cup {AddData(m) : m \in MovieIds}
    \cup {DelData(m) : m \in MovieIds}

\* The handler stands at an await.
Suspended(t) == t.pc \in {"answer", "search", "trending", "details", "providers"}

Finished(t) == t.pc \in {"done", "raised"}

\* The event loop leaves the running handler at its await and resumes the
\* waiting one, or takes the next update if none waits; a handler that has
\* ended gives way to the waiting one.
Switch ==
    /\ phase = "serving"
    /\ Suspended(task) \/ (Finished(task) /\ Suspended(parked.task))
    /\ parked' = [task |-> task, out |-> out, reqs |-> reqs]
    /\ task' = parked.task
    /\ out' = parked.out
    /\ reqs' = parked.reqs
    /\ UNCHANGED <<env, phase, storeVars, user_data, nevents, fmtVars, history>>

InitRace ==
    /\ store = {}
    /\ StoreIdle
    /\ BotIdle
    /\ FmtIdle

NextRace ==
    \/ \E data \in RacePayloads : OnCallback(RaceUser, data)
    \/ Switch
    \/ CbAdd
    \/ CbDel
    \/ CbSelect
    \/ \E details \in DetailsOf(task.movie_id) : DetailsReturns(details)
    \/ \E providers \in ProviderJsons : ProvidersReturns(providers)
    \/ \E exc \in {"RuntimeError", "TimeoutError"} : RequestFails(exc)

SpecRace == InitRace /\ [][NextRace]_vars

-----------------------------------------------------------------------------
(* The claims about the watchlist store, checked under SpecStore.          *)

\* The entries of a listing that carry movie id m
Hits(listing, m) == {i \in 1..Len(listing) : listing[i][1] = m}

\* C1: after db_add_watch(u, m, title, year) the listing of u holds exactly
\* one entry with movie id m, carrying the title, the year and the instant
\* of this call; the table holds one row of the key; and when the key was
\* there before, the listing is as long as it was.
C1_Upsert ==
    [][dbcall'.fn = "db_add_watch" /\ clock' # clock =>
        \A u \in {dbcall'.user_id}, m \in {dbcall'.movie_id} :
        \A before \in {db_list_watch(store, u)}, after \in {db_list_watch(store', u)} :
            /\ Cardinality(Hits(after, m)) = 1
            /\ \A i \in Hits(after, m) :
                  after[i] = <<m, dbcall'.title, dbcall'.year, isoformat(clock')>>
            /\ Cardinality({r \in store' : r.user_id = u /\ r.movie_id = m}) = 1
            /\ dbcall'.existed => Len(after) = Len(before)
            /\ ~dbcall'.existed => Len(after) = Min(Len(before) + 1, ListLimit)]_vars

\* C1 witness: a second add of a key, for a user whose listing is full.
C1_Witness ==
    /\ dbcall.fn = "db_add_watch"
    /\ dbcall.existed
    /\ Cardinality({r \in store : r.user_id = dbcall.user_id}) >= ListLimit
    /\ \E r \in store :
          /\ r.user_id = dbcall.user_id /\ r.movie_id = dbcall.movie_id
          /\ r.added_at = isoformat(clock)

\* C2: db_remove_watch(u, m) leaves the table as it is when it holds no row
\* (u, m), and otherwise takes away the row (u, m) and no other.
C2_Remove ==
    [][dbcall'.fn = "db_remove_watch" =>
        LET u == dbcall'.user_id
            m == dbcall'.movie_id
        IN  /\ ~HasRow(store, u, m) => store' = store
            /\ ~HasRow(store', u, m)
            /\ \A r \in store : (r.user_id # u \/ r.movie_id # m) => r \in store'
            /\ store' \subseteq store
            /\ HasRow(store, u, m) => Cardinality(store') = Cardinality(store) - 1]_vars

\* C2 witness: a remove of a key that is not there, the user having other
\* rows and another user having rows.
C2_Witness ==
    /\ dbcall.fn = "db_remove_watch"
    /\ ~dbcall.existed
    /\ \E r, q \in store : r.user_id = dbcall.user_id /\ q.user_id # dbcall.user_id

\* The instant a stored added_at text stands for
InstantOf(text) ==
    LET parts == Split(text, ".")
    IN  DigitsVal(parts[1], 0) * Micro
        + (IF Len(parts) > 1 THEN DigitsVal(parts[2], 0) ELSE 0)

\* C3: db_list_watch(u) returns at most 50 entries, each a row of u, later
\* instants first; a row of u is left out only when 50 are returned, and
\* then it is no later than any row returned.
C3_List ==
    dbcall.fn = "db_list_watch" =>
        LET u == dbcall.user_id
            mine == {r \in store : r.user_id = u}
            n == Len(dbrows)
            left == {r \in mine : Hits(dbrows, r.movie_id) = {}}
        IN  /\ n <= 50
            /\ \A i \in 1..n : \E r \in mine :
                  dbrows[i] = <<r.movie_id, r.title, r.year, r.added_at>>
            /\ \A i, j \in 1..n :
                  i < j => InstantOf(dbrows[i][4]) > InstantOf(dbrows[j][4])
            /\ left # {} => n = 50
            /\ \A r \in left : \A i \in 1..n :
                  InstantOf(r.added_at) < InstantOf(dbrows[i][4])

\* C3 witness: a listing of 50 entries that leaves a row of the user out
\* and returns instants with and without a fraction.
C3_Witness ==
    /\ dbcall.fn = "db_list_watch"
    /\ Len(dbrows) = ListLimit
    /\ Cardinality({r \in store : r.user_id = dbcall.user_id}) > ListLimit
    /\ Len(dbrows[1][4]) > 2
    /\ Len(dbrows[2][4]) = 2

-----------------------------------------------------------------------------
(* The claims about the dispatcher, checked under Spec.                    *)

\* s is made of digits only
IsNumeric(s) == s # <<>> /\ \A i \in 1..Len(s) : IsDigit(s[i])

\* The id argument of callback data that starts with a recognized tag
ArgOf(data) ==
    IF StartsWith(data, TagAdd) THEN Drop(data, Len(TagAdd))
    ELSE IF StartsWith(data, TagDel) THEN Drop(data, Len(TagDel))
    ELSE Drop(data, Len(TagM))

\* Callback data with a recognized tag and an id argument that is missing
\* or not numeric
Malformed(data) ==
    /\ StartsWith(data, TagAdd) \/ StartsWith(data, TagDel) \/ StartsWith(data, TagM)
    /\ ~IsNumeric(ArgOf(data))

\* C4: on_callback, given callback data with a recognized tag whose id
\* argument is missing or not numeric, returns without raising, writes
\* nothing to the table and leaves user_data as it is.
C4_MalformedIgnored ==
    [][task.pc = "answer" /\ Malformed(task.data) /\ task'.pc # "answer" =>
        /\ task'.pc = "done"
        /\ store' = store
        /\ user_data' = user_data]_vars

UpstreamErrors == {"RuntimeError", "TimeoutError"}

Last(s) == s[Len(s)]

\* The replies that report a failure to the user: the program has none, so
\* any reply sent after the failure counts.
\* C5: when a TMDB request fails during a search, a trending listing or a
\* selection, the handler returns without raising and has sent a reply
\* after the failure.
C5_UpstreamCaught ==
    [][task.pc \in {"search", "trending", "details", "providers"}
       /\ task'.exc \in UpstreamErrors =>
        /\ task'.pc = "done"
        /\ Len(out') > Len(out)]_vars

\* A step in which a handler calls a db_* function: the watchlist branches
\* of on_callback once the id is parsed, and the watchlist listing
DbStep ==
    \/ /\ task.pc = "answer" /\ task'.pc # "answer"
       /\ Branch(task.data) \in {"add", "del"}
       /\ IdArg(task.data).ok
    \/ /\ nevents' # nevents
       /\ task'.handler = "handle_text"
       /\ Strip(task'.data) = BtnWatchlist

\* C6: when a db_* call raises during "w:add", "w:del" or the watchlist
\* listing, the handler returns without raising, it has sent a reply that
\* is not the confirmation of success, and user_data is as it was.
C6_StorageCaught ==
    [][DbStep /\ dbcall'.raised =>
        /\ task'.pc = "done"
        /\ out' # <<>>
        /\ Last(out').text \notin {MsgAdded, MsgRemoved}
        /\ user_data' = user_data]_vars

\* on_callback has returned from the branch b.
CallbackDone(b) ==
    task.pc = "done" /\ task.handler = "on_callback" /\ Branch(task.data) = b

\* C7: once "w:add:<id>" of user u is handled, the table holds a row
\* (u, id) written at this call; it carries the title and the year of the
\* last viewed movie of u when that movie has the id, and "Movie" with an
\* empty year when u has no last viewed movie or one of another id.
C7_AddTitle ==
    CallbackDone("add") =>
        LET id == IdArg(task.data).val
            last == user_data[task.user]
        IN  \E r \in store :
                /\ r.user_id = task.user /\ r.movie_id = id
                /\ r.added_at = isoformat(clock)
                /\ IF last # None /\ last.id = id
                   THEN r.title = Or(Get(last, "title"), TxtUnknown)
                        /\ r.year = Take(Get(last, "release_date"), 4)
                   ELSE r.title = TxtMovie /\ r.year = <<>>

\* C7 witness: a user holds a row with the title of the movie last viewed
\* and, for another movie, a row with the placeholder.
C7_Witness ==
    /\ CallbackDone("add")
    /\ \E r, q \in store :
          /\ r.user_id = task.user /\ q.user_id = task.user
          /\ user_data[task.user] # None
          /\ r.movie_id = user_data[task.user].id
          /\ r.title = FullTitle(r.movie_id) /\ r.year = <<"2", "0", "2", "1">>
          /\ q.movie_id # r.movie_id
          /\ q.title = TxtMovie /\ q.year = <<>>

\* sub occurs in s
Contains(s, sub) ==
    \E i \in 0..(Len(s) - Len(sub)) : SubSeq(s, i + 1, i + Len(sub)) = sub

\* The callback data of the buttons of a reply
DataOf(reply) ==
    IF reply.kb.kind # "inline" THEN {}
    ELSE UNION {{reply.kb.rows[i][j].callback_data : j \in 1..Len(reply.kb.rows[i])} :
                    i \in 1..Len(reply.kb.rows)} \ {<<>>}

\* on_callback takes the data, and an id in it reads back as it was written
ReadsBack(data) ==
    \/ Branch(data) \in {"cancel", "menu"}
    \/ /\ Branch(data) \in {"add", "del", "select"}
       /\ IdArg(data).ok
       /\ data \in {SelectData(IdArg(data).val), AddData(IdArg(data).val),
                     DelData(IdArg(data).val)}

\* C8: once a selection "m:<id>" is handled with both requests answered,
\* the last viewed movie of the user is the detail fetched for <id>, the
\* card carries its title, one row of the controls carries "w:add:<id>"
\* and "w:del:<id>", and "w:add:<id>" pressed next writes the title and
\* the year of the detail, not the placeholder; and on_callback takes
\* every callback data the bot has sent and reads its id back.
C8_SelectFlow ==
    /\ \A i \in 1..Len(out) : \A data \in DataOf(out[i]) : ReadsBack(data)
    /\ CallbackDone("select") =>
        LET id == IdArg(task.data).val
            card == Last(out)
            shown == Or(Get(task.details, "title"), TxtUnknown)
        IN  /\ user_data[task.user] = task.details
            /\ task.details.id = id
            /\ Contains(card.text, shown)
            /\ \E i \in 1..Len(card.kb.rows) :
                  /\ Len(card.kb.rows[i]) = 2
                  /\ card.kb.rows[i][1].callback_data = TagAdd \o IntToStr(id)
                  /\ card.kb.rows[i][2].callback_data = TagDel \o IntToStr(id)
                  /\ IdArg(card.kb.rows[i][1].callback_data).val = id
                  /\ IdArg(card.kb.rows[i][2].callback_data).val = id
                  /\ AddTitle(user_data[task.user], IdArg(card.kb.rows[i][1].callback_data).val)
                        = <<shown, Take(Get(task.details, "release_date"), 4)>>
            /\ shown # TxtMovie

\* C8 witness: a selection of a movie with a two-digit id, made after a
\* search in the same run, has sent a photo card.
C8_Witness ==
    /\ CallbackDone("select")
    /\ nevents > 1
    /\ task.movie_id >= 10
    /\ Last(out).method = "reply_photo"
    /\ Contains(Last(out).text, FullTitle(task.movie_id))

-----------------------------------------------------------------------------
(* The claims about the presentation functions.                            *)

\* The label the claim gives a result: "{title} ({year})" when the year is
\* known, the title alone otherwise; a result without a title is shown as
\* "Unknown".
ClaimedLabel(r) ==
    LET title == IF "title" \in DOMAIN r /\ r.title # <<>> THEN r.title ELSE TxtUnknown
        year == IF "release_date" \in DOMAIN r THEN SubSeq(r.release_date, 1, 4) ELSE <<>>
    IN  IF year # <<>> THEN title \o <<" ", "(">> \o year \o <<")">> ELSE title

\* C9: for a result list of length n > 0 the search reply carries
\* min(5, n) selection buttons, one a row, in the order of the results, the
\* i-th with the data "m:<id of the i-th result>" and the label of the
\* result cut to 60 characters, and after them one cancel button and no
\* other; for an empty list it carries no selection button.
C9_ResultsLayout ==
    fcall.fn = "search_reply" /\ fret # Pending =>
        LET results == fcall.args
            n == Len(results)
            k == IF n < 5 THEN n ELSE 5
            rows == fret.kb.rows
        IN  IF n = 0 THEN DataOf(fret) = {}
            ELSE /\ fret.kb.kind = "inline"
                 /\ Len(rows) = k + 1
                 /\ \A i \in 1..k :
                      /\ Len(rows[i]) = 1
                      /\ rows[i][1].callback_data = <<"m", ":">> \o IntToStr(results[i].id)
                      /\ IdArg(rows[i][1].callback_data).val = results[i].id
                      /\ rows[i][1].url = <<>>
                      /\ Len(rows[i][1].text) <= 60
                      /\ rows[i][1].text
                           = SubSeq(ClaimedLabel(results[i]), 1, Min(60, Len(ClaimedLabel(results[i]))))
                 /\ Len(rows[k + 1]) = 1
                 /\ rows[k + 1][1].callback_data = DataCancel
                 /\ Branch(rows[k + 1][1].callback_data) = "cancel"

\* C9 witness: a reply to six results that shows five, among them a label
\* cut to 60 characters and a result without title and year.
C9_Witness ==
    /\ fcall.fn = "search_reply" /\ fret # Pending
    /\ Len(fcall.args) = 6
    /\ Len(fret.kb.rows) = 6
    /\ \E i, j \in 1..5 :
          /\ Len(ClaimedLabel(fcall.args[i])) > 60
          /\ Len(fret.kb.rows[i][1].text) = 60
          /\ fret.kb.rows[j][1].text = TxtUnknown

Categories == {"flatrate", "rent", "buy"}

CategoryLabel(c) ==
    IF c = "flatrate" THEN TxtFlatrate ELSE IF c = "rent" THEN TxtRent ELSE TxtBuy

\* The names of the providers of a category of a region's entry
NamesIn(info, c) ==
    IF c \notin DOMAIN info THEN {}
    ELSE {info[c][i].provider_name :
            i \in {j \in 1..Len(info[c]) : "provider_name" \in DOMAIN info[c][j]}}

\* text is the availability of region reg built from the entry info, with a
\* line for each category of cats and for no other: the "not available"
\* message when cats is empty, and otherwise a head line naming reg and one
\* line per category of cats, labelled and carrying its provider names.
BuiltFrom(text, reg, info, cats) ==
    IF cats = {} THEN text = TxtNotAvailable
    ELSE LET lines == Split(text, "\n")
         IN  /\ Len(lines) = 1 + Cardinality(cats)
             /\ lines[1] = TxtWhereHead \o reg \o TxtWhereTail
             /\ \A c \in Categories :
                   Cardinality({i \in 2..Len(lines) : StartsWith(lines[i], CategoryLabel(c))})
                     = IF c \in cats THEN 1 ELSE 0
             /\ \A c \in cats : \A i \in 2..Len(lines) :
                   StartsWith(lines[i], CategoryLabel(c)) =>
                       \A name \in NamesIn(info, c) : Contains(lines[i], name)

\* The categories of an entry whose list is not empty
NonEmptyCategories(info) == {c \in Categories : c \in DOMAIN info /\ info[c] # <<>>}

\* The categories of an entry with a provider that has a name
NamedCategories(info) == {c \in Categories : NamesIn(info, c) # {}}

FormatDone == fcall.fn = "format_providers" /\ fret # Pending

\* C10 as stated: the text is built from the entry of the preferred region
\* whenever the region is a key of the mapping, from the "US" entry when
\* it is not and "US" is, and is "not available" when neither is; a line
\* for each category whose list is not empty.
C10_AsStated ==
    FormatDone =>
        LET results == Get(fcall.args[1], "results")
            region == fcall.args[2]
        IN  IF region \in DOMAIN results
            THEN BuiltFrom(fret, region, results[region], NonEmptyCategories(results[region]))
            ELSE IF RegionUS \in DOMAIN results
            THEN BuiltFrom(fret, RegionUS, results[RegionUS],
                           NonEmptyCategories(results[RegionUS]))
            ELSE fret = TxtNotAvailable

\* The mapping gives the region an entry that is not empty.
HasEntry(results, region) == region \in DOMAIN results /\ DOMAIN results[region] # {}

\* C10 as amended: the text is built from the entry of the preferred
\* region whenever the mapping gives it an entry that is not empty, from
\* the "US" entry when it does not and "US" has one that is not empty, and
\* is "not available" when neither has; a line for each category with at
\* least one provider that has a name.
C10_Regions ==
    FormatDone =>
        LET results == Get(fcall.args[1], "results")
            region == fcall.args[2]
        IN  IF HasEntry(results, region)
            THEN BuiltFrom(fret, region, results[region], NamedCategories(results[region]))
            ELSE IF HasEntry(results, RegionUS)
            THEN BuiltFrom(fret, RegionUS, results[RegionUS],
                           NamedCategories(results[RegionUS]))
            ELSE fret = TxtNotAvailable

\* C10 witness: the preferred region is a key with an empty entry, and the
\* text is built from a "US" entry with two categories.
C10_Witness ==
    /\ FormatDone
    /\ LET results == Get(fcall.args[1], "results")
       IN  /\ fcall.args[2] \in DOMAIN results
           /\ ~HasEntry(results, fcall.args[2])
           /\ HasEntry(results, RegionUS)
           /\ Len(Split(fret, "\n")) = 3
           /\ Contains(fret, RegionUS)

-----------------------------------------------------------------------------
(* The claims about the action controls, the dispatch of texts, the        *)
(* startup and the frame of the handlers.                                  *)

\* movie_actions_kb has returned.
ActionsDone == fcall.fn = "movie_actions_kb" /\ fret # Pending

\* A row of link buttons: one or two buttons, each opening one of the links
\* given, none carrying callback data
IsLinkRow(row, links) ==
    /\ Len(row) \in 1..2
    /\ \A j \in 1..Len(row) :
          row[j].url # <<>> /\ row[j].url \in links /\ row[j].callback_data = <<>>

\* The watchlist row of movie id: an add button and a remove button whose
\* data on_callback reads as that branch and that id
IsWatchRow(row, id) ==
    /\ Len(row) = 2
    /\ row[1].url = <<>> /\ row[2].url = <<>>
    /\ Branch(row[1].callback_data) = "add"
    /\ IdArg(row[1].callback_data) = [ok |-> TRUE, val |-> id]
    /\ Branch(row[2].callback_data) = "del"
    /\ IdArg(row[2].callback_data) = [ok |-> TRUE, val |-> id]

IsMenuRow(row) ==
    Len(row) = 1 /\ row[1].url = <<>> /\ Branch(row[1].callback_data) = "menu"

\* C11: movie_actions_kb emits a row of links if and only if one of the two
\* links is given; without a link the keyboard is the watchlist row of the
\* movie id and the menu row, with a link it is the row of links, the
\* watchlist row and the menu row, in this order.
C11_ActionsLayout ==
    ActionsDone =>
        LET id == fcall.args[1]
            links == {fcall.args[2], fcall.args[3]} \ {<<>>}
            rows == fret
        IN  /\ (\E i \in 1..Len(rows) : \E j \in 1..Len(rows[i]) : rows[i][j].url # <<>>)
                 <=> links # {}
            /\ links = {} =>
                  /\ Len(rows) = 2
                  /\ IsWatchRow(rows[1], id)
                  /\ IsMenuRow(rows[2])
            /\ links # {} =>
                  /\ Len(rows) = 3
                  /\ IsLinkRow(rows[1], links)
                  /\ Len(rows[1]) = Cardinality({k \in 2..3 : fcall.args[k] # <<>>})
                  /\ IsWatchRow(rows[2], id)
                  /\ IsMenuRow(rows[3])

\* C11 witness: the keyboard of movie 42 without a link has two rows.
C11_Witness ==
    /\ ActionsDone
    /\ fcall.args = <<42, <<>>, <<>>>>
    /\ Len(fret) = 2

\* The four labels of the main menu keyboard
MenuLabels == {main_menu_kb[i][j] : i \in 1..2, j \in 1..2}

\* The title searches among the requests of the update being handled
IsSearch(r) == r.path = PathSearch

Searches == SelectSeq(reqs, IsSearch)

TextTaken == task.handler = "handle_text"

\* C12 as stated: a text equal to a menu label issues no title search, any
\* other non-empty text issues exactly one, with the text as its query.
C12_AsStated ==
    TextTaken =>
        /\ task.data \in MenuLabels => Searches = <<>>
        /\ task.data \notin MenuLabels /\ task.data # <<>> =>
              Searches = <<Request(PathSearch, task.data)>>

\* C12: a text that, stripped of the whitespace around it, is a menu label
\* or is empty issues no title search; any other text issues exactly one,
\* whose query is the stripped text.
C12_LabelsBypass ==
    TextTaken =>
        LET t == Strip(task.data)
        IN  /\ t \in MenuLabels \cup {<<>>} => Searches = <<>>
            /\ t \notin MenuLabels \cup {<<>>} => Searches = <<Request(PathSearch, t)>>

\* C12 witness: the search of a title sent with blanks around it has
\* returned, and one search was issued for the title.
C12_Witness ==
    /\ TextTaken
    /\ task.pc = "done"
    /\ task.data = <<" ">> \o Query \o <<" ">>
    /\ Searches = <<Request(PathSearch, Query)>>
    /\ Len(out) = 2

\* An update has been taken by a handler.
EventTaken == nevents > 0 \/ task.pc # "idle"

\* C13: in either run mode the process serves updates only once check_env
\* has passed, and check_env does not pass without BOT_TOKEN or without
\* TMDB_API_KEY: the startup is aborted then, and no update is ever taken
\* by a handler while TMDB_API_KEY is missing.
C13_CheckedAtStartup ==
    /\ phase = "serving" => env.BOT_TOKEN /\ env.TMDB_API_KEY
    /\ phase # "boot" /\ (~env.BOT_TOKEN \/ ~env.TMDB_API_KEY) => phase = "aborted"
    /\ EventTaken => phase = "serving" /\ env.TMDB_API_KEY

\* C13 witness: the webhook mode was aborted for the missing TMDB_API_KEY
\* before any update was taken.
C13_Witness ==
    /\ phase = "aborted"
    /\ env.WEBHOOK_BASE /\ env.BOT_TOKEN /\ ~env.TMDB_API_KEY
    /\ ~EventTaken

\* Callback data that is neither "cancel" nor "menu" and starts with none
\* of the three tags
Unknown(data) ==
    /\ data \notin {DataCancel, DataMenu}
    /\ ~StartsWith(data, TagAdd)
    /\ ~StartsWith(data, TagDel)
    /\ ~StartsWith(data, TagM)

\* C14: on_callback, given data that is neither "cancel" nor "menu" and
\* starts with none of "w:add:", "w:del:", "m:", returns without raising,
\* sends no reply, issues no request, and leaves the table and user_data as
\* they are.
C14_UnknownIgnored ==
    [][task.pc = "answer" /\ Unknown(task.data) /\ task'.pc # "answer" =>
        /\ task'.pc = "done" /\ task'.exc = ""
        /\ out' = <<>>
        /\ reqs' = <<>>
        /\ store' = store
        /\ user_data' = user_data]_vars

\* C14 witness: data with the selection tag in upper case was ignored by a
\* user who has a last viewed movie and a row in the table.
C14_Witness ==
    /\ task.pc = "done" /\ task.handler = "on_callback"
    /\ task.data = <<"M", ":", "9">>
    /\ out = <<>> /\ reqs = <<>>
    /\ user_data[task.user] # None
    /\ \E r \in store : r.user_id = task.user

\* s ends with suffix
EndsWith(s, suffix) ==
    Len(s) >= Len(suffix) /\ Drop(s, Len(s) - Len(suffix)) = suffix

\* A request of the watch/providers of a movie
IsProvidersReq(r) == EndsWith(r.path, PathProviders)

HasProvidersReq(rs) == \E i \in 1..Len(rs) : IsProvidersReq(rs[i])

NoRepeat(rs) == \A i, j \in 1..Len(rs) : rs[i] = rs[j] => i = j

\* C15: the handling of one update issues at most two TMDB requests and
\* none twice; the providers request of a selection is issued in the step in
\* which the details request returns a detail, as the second request after
\* the details request of the same movie; a step in which a request fails
\* issues none, and none is issued after it for the same update.
C15_CallDiscipline ==
    [][/\ Len(reqs') <= 2
       /\ NoRepeat(reqs')
       /\ HasProvidersReq(reqs') /\ ~HasProvidersReq(reqs) =>
            /\ task.pc = "details" /\ task'.pc = "providers"
            /\ task'.details # None /\ task'.details.id = task.movie_id
            /\ task'.exc = ""
            /\ reqs' = <<Request(PathMovie \o IntToStr(task.movie_id), <<>>),
                         Request(PathMovie \o IntToStr(task.movie_id) \o PathProviders,
                                 <<>>)>>
       /\ task'.exc \in UpstreamErrors => reqs' = reqs
       /\ task.exc \in UpstreamErrors /\ nevents' = nevents => reqs' = reqs]_vars

\* C15 witness: a selection has ended after its two requests, the details
\* request first.
C15_Witness ==
    /\ task.pc = "done" /\ Branch(task.data) = "select"
    /\ Len(reqs) = 2
    /\ ~IsProvidersReq(reqs[1]) /\ IsProvidersReq(reqs[2])

\* C16: under every interleaving of two handlers of one user at their
\* awaits, every row of the table holds either the title and the year of a
\* detail of its own movie id or the placeholder "Movie" with an empty
\* year.
C16_NoForeignTitle ==
    \A r \in store :
        \/ r.title = TxtMovie /\ r.year = <<>>
        \/ \E d \in DetailsOf(r.movie_id) :
              d.id = r.movie_id /\ r.title = TitleOf(d) /\ r.year = YearOf(d)

\* C16 witness: while "w:add" of one movie waited at its await, a
\* selection of another movie ran to its end and replaced the last viewed
\* movie; the add then wrote the placeholder.
C16_Witness ==
    /\ task.pc = "done" /\ Branch(task.data) = "add"
    /\ parked.task.pc = "done" /\ Branch(parked.task.data) = "select"
    /\ parked.task.user = task.user
    /\ user_data[task.user] # None
    /\ user_data[task.user].id = IdArg(parked.task.data).val
    /\ user_data[task.user].id # IdArg(task.data).val
    /\ \E r \in store :
          /\ r.user_id = task.user /\ r.movie_id = IdArg(task.data).val
          /\ r.title = TxtMovie /\ r.year = <<>>

\* C17: user_data changes only in the step in which the providers request
\* of a selection "m:<id>" returns, after the details request has returned,
\* and then the last viewed movie of the user becomes the detail fetched
\* for <id>; a step in which a request fails leaves user_data as it is; the
\* table changes only in a step of the "w:add" or the "w:del" branch of
\* on_callback.
C17_SessionFrame ==
    [][/\ user_data' # user_data =>
            /\ task.handler = "on_callback" /\ Branch(task.data) = "select"
            /\ task.pc = "providers" /\ task'.pc = "done" /\ task'.exc = ""
            /\ Len(reqs) = 2 /\ task.details # None
            /\ task.details.id = IdArg(task.data).val
            /\ user_data' = [user_data EXCEPT ![task.user] = task.details]
       /\ task'.exc \in UpstreamErrors => user_data' = user_data
       /\ store' # store =>
            /\ task.handler = "on_callback" /\ task.pc = "answer"
            /\ Branch(task.data) \in {"add", "del"}]_vars

\* C17 witness: the selection of a movie has failed at a request, and the
\* last viewed movie of the user is still the other movie.
C17_Witness ==
    /\ task.pc = "raised" /\ task.exc \in UpstreamErrors
    /\ Branch(task.data) = "select" /\ IdArg(task.data).ok
    /\ Len(reqs) = 2
    /\ user_data[task.user] # None
    /\ user_data[task.user].id # IdArg(task.data).val

\* No handler stands between taking a callback of the watchlist and acting
\* on it.
Settled == task.pc # "answer"

\* C18: when no db_* call has raised, the row (u, m) is in the table if and
\* only if u has sent a callback "w:add:<m>" or "w:del:<m>" that on_callback
\* took (its id argument is one int() reads as m) and the last of them was
\* an add, whatever else was handled before or in between.
C18_Membership ==
    ~history.failed /\ Settled =>
        \A u \in Users, m \in MovieIds :
            HasRow(store, u, m) <=> history.last[u][m] = "add"

\* C18 witness: a user with no movie viewed has added a movie, removed it
\* and added it again; the row is in the table.
C18_Witness ==
    /\ ~history.failed
    /\ task.pc = "done" /\ Branch(task.data) = "add"
    /\ user_data[task.user] = None
    /\ nevents = 3
    /\ clock = ClockStart + 2
    /\ dbcall.fn = "db_add_watch" /\ ~dbcall.existed
    /\ HasRow(store, task.user, IdArg(task.data).val)

\* The rows of user v
RowsOf(st, v) == {r \in st : r.user_id = v}

\* C19: a step of the handler of an update of user u leaves, for every
\* other user v, the rows of v, the last viewed movie of v, the list
\* db_list_watch returns for v and the title "w:add" would write for v as
\* they were.
C19_Isolation ==
    [][\A v \in Users \ {task'.user} :
          /\ RowsOf(store', v) = RowsOf(store, v)
          /\ user_data'[v] = user_data[v]
          /\ db_list_watch(store', v) = db_list_watch(store, v)
          /\ \A m \in MovieIds :
                AddTitle(user_data'[v], m) = AddTitle(user_data[v], m)]_vars

\* C19 witness: a user has added the movie that another user viewed and
\* added before; the other user's row still has the title, the last viewed
\* movie of the other user is still that movie, and the user's own row has
\* the placeholder.
C19_Witness ==
    /\ task.pc = "done" /\ Branch(task.data) = "add"
    /\ user_data[task.user] = None
    /\ \E v \in Users \ {task.user} : \E r, q \in store :
          /\ r.user_id = v /\ q.user_id = task.user
          /\ r.movie_id = q.movie_id /\ q.movie_id = IdArg(task.data).val
          /\ user_data[v] # None /\ user_data[v].id = r.movie_id
          /\ r.title = FullTitle(r.movie_id)
          /\ q.title = TxtMovie

====
